---------------------------- MODULE Spec2Model ----------------------------
(***************************************************************************)
(* VideoMuse execution engine.                                             *)
(*                                                                         *)
(* Four state machines over one set of variables, each with its own        *)
(* specification:                                                          *)
(*   SpecPipeline  - PipelineOrchestrator.run and the five stages          *)
(*   SpecAgent     - run_analysis_task / run_agent / backfill / report     *)
(*   SpecSubtitle  - BilibiliAdapter._get_subtitle_list_from_player        *)
(*   SpecWbi       - _get_wbi_mixin_key shared by concurrent callers       *)
(* Texts are modelled by what the code tests of them: a transcript, a      *)
(* summary or a report is "" (falsy) or a non-empty token.                 *)
(***************************************************************************)
EXTENDS Integers, Sequences, FiniteSets, TLC

VARIABLES
    \* ---- Stage Pipeline (pipeline/orchestrator.py, pipeline/steps/*) ----
    pctx,        \* PipelineContext
    orch_pc,     \* position of PipelineOrchestrator.run
    step_i,      \* index i of the for loop over self.steps (1-based)
    skipping,    \* local variable skipping of run
    error,       \* exception that unwound run: [type, step]
    ex,          \* locals of ExtractStep.execute
    sm,          \* locals and tasks of SummarizeStep.execute
    exec_log,    \* history: step.execute calls, with the flag seen at the check
    cb_log,      \* callbacks invoked: progress and step-complete hook
    attempted,   \* history: adapter.get_subtitles requests of ExtractStep
    cancel_at,   \* history: index of the step whose boundary check raised
    \* ---- Control Loop (services/task_service.py, agent/*) ----
    actx,        \* AgentContext of the run
    task,        \* the Task row
    db,          \* what persist_final_results stored: videos and report
    active,      \* task_id in _active_contexts
    a_pc,        \* position of run_analysis_task / run_agent
    iterations,  \* iterations used by AgentExecutor
    bf,          \* locals of _backfill_videos
    hist,        \* history of the run, read only by the properties
    \* ---- Bilibili adapter (platforms/bilibili.py) ----
    sub,         \* one call of _get_subtitle_list_from_player
    wbi,         \* _wbi_mixin_key, _wbi_key_expires, the clock and the callers
    \* ---- Several runs side by side (api/routes/tasks.py, agent/tools.py) ----
    life,        \* one Task row, its scheduled runs and _active_contexts
    tools,       \* tools._ctx and the contexts of two tasks' runs
    \* ---- Text generation (llm/provider.py) ----
    llm,         \* one call of OpenAICompatibleProvider.chat or chat_json
    \* ---- Static helpers of the adapter (platforms/bilibili.py) ----
    dur,         \* one call of BilibiliAdapter._parse_duration
    \* ---- Transcript retrieval (platforms/bilibili.py, platforms/base.py) ----
    gs,          \* adapter objects, their _cid_cache and get_subtitles calls
    boot         \* _buvid_initialized and the adapter calls of concurrent runs

pipeVars == <<pctx, orch_pc, step_i, skipping, error, ex, sm, exec_log, cb_log,
              attempted, cancel_at>>

agentVars == <<actx, task, db, active, a_pc, iterations, bf, hist>>

adapterVars == <<sub, wbi>>

serviceVars == <<life, tools>>

llmVars == <<llm>>

helperVars == <<dur>>

transcriptVars == <<gs, boot>>

vars == <<pipeVars, agentVars, adapterVars, serviceVars, llmVars, helperVars,
          transcriptVars>>

\* what the pipeline's steps leave alone
PipeFrame == UNCHANGED <<agentVars, adapterVars, serviceVars, llmVars,
                          helperVars, transcriptVars>>

\* what the control loop's steps leave alone
AgentFrame == UNCHANGED <<pipeVars, adapterVars, serviceVars, llmVars,
                          helperVars, transcriptVars>>

\* what the subtitle-track fetch leaves alone
SubFrame == UNCHANGED <<pipeVars, agentVars, wbi, serviceVars, llmVars,
                          helperVars, transcriptVars>>

\* what the signing-key lookups leave alone
WbiFrame == UNCHANGED <<pipeVars, agentVars, sub, serviceVars, llmVars,
                          helperVars, transcriptVars>>

\* what the task routes and the runs they schedule leave alone
LifeFrame == UNCHANGED <<pipeVars, agentVars, adapterVars, tools, llmVars,
                          helperVars, transcriptVars>>

\* what the tools of concurrent runs leave alone
ToolsFrame == UNCHANGED <<pipeVars, agentVars, adapterVars, life, llmVars,
                          helperVars, transcriptVars>>

\* what a text-generation call leaves alone
LlmFrame ==
    UNCHANGED <<pipeVars, agentVars, adapterVars, serviceVars, helperVars,
                transcriptVars>>

\* what a call of a static helper leaves alone
HelperFrame ==
    UNCHANGED <<pipeVars, agentVars, adapterVars, serviceVars, llmVars,
                transcriptVars>>

\* what transcript retrieval leaves alone
TranscriptFrame ==
    UNCHANGED <<pipeVars, agentVars, adapterVars, serviceVars, llmVars,
                helperVars, boot>>

\* what the session bootstrap and the calls behind it leave alone
BootFrame ==
    UNCHANGED <<pipeVars, agentVars, adapterVars, serviceVars, llmVars,
                helperVars, gs>>

-----------------------------------------------------------------------------
(* Bounds *)

\* largest number of videos a search returns
MaxPool == 4
\* largest target count (Task.max_videos)
MaxTarget == 2

-----------------------------------------------------------------------------
(* Generic helpers *)

IsPrefix(s, t) == Len(s) <= Len(t) /\ SubSeq(t, 1, Len(s)) = s

Range(s) == {s[k] : k \in 1..Len(s)}

Min(a, b) == IF a <= b THEN a ELSE b

\* number of elements of s satisfying Test
CountSeq(s, Test(_)) == Len(SelectSeq(s, Test))

-----------------------------------------------------------------------------
(* Stage Pipeline *)

Steps == <<"search", "extract", "summarize", "consolidate", "report">>

TotalSteps == Len(Steps)

\* progress values are kept as integers: progress * ProgressScale
ProgressScale == 3 * 4 * 5

Platforms == {"bilibili", "nosuch"}

\* PlatformRegistry.get: raises ValueError iff the name is not registered
RegistryKnows(name) == name = "bilibili"

\* mutant: the check never raises
check_cancelled_never(ctx) == FALSE

\* PipelineContext.check_cancelled: TRUE iff it raises PipelineCancelledError
check_cancelled(ctx) == ctx.cancel_event

\* PipelineContext.get_step_progress with sub_progress = num/den
get_step_progress(step_index, num, den) ==
    (step_index * 100 * ProgressScale) \div TotalSteps
      + (num * 100 * ProgressScale) \div (den * TotalSteps)

VideoResult(v, t, m) ==
    [id |-> v, transcript |-> t, summary |-> "", extraction_method |-> m]

NoError == [type |-> "none", step |-> "none"]

ExIdle == [i |-> 0, pool_size |-> 0, success_count |-> 0, results |-> <<>>]

SmIdle == [total |-> 0, completed |-> 0, task |-> <<>>, outcome |-> <<>>]

\* context.set_progress: assigns the field and awaits the progress callback
SetProgress(ctx, p) == [ctx EXCEPT !.progress = p]

ProgressEvent(p) == [cb |-> "progress", value |-> p, step |-> "-"]

HookEvent(name) == [cb |-> "hook", value |-> 0, step |-> name]

\* run advancing the progress before it invokes the hook
StepCompleted_progress_first(ctx, log) ==
    LET p == (step_i * 100 * ProgressScale) \div TotalSteps IN
    /\ pctx' = SetProgress(ctx, p)
    /\ cb_log' = log \o <<ProgressEvent(p), HookEvent(Steps[step_i])>>
    /\ step_i' = step_i + 1
    /\ orch_pc' = "top"
    /\ UNCHANGED <<error, skipping, exec_log, cancel_at>>

\* orchestrator.run after step.execute returned: hook, progress, next i
StepCompleted(ctx, log) ==
    LET p == (step_i * 100 * ProgressScale) \div TotalSteps IN
    /\ pctx' = SetProgress(ctx, p)
    /\ cb_log' = log \o <<HookEvent(Steps[step_i]), ProgressEvent(p)>>
    /\ step_i' = step_i + 1
    /\ orch_pc' = "top"
    /\ UNCHANGED <<error, skipping, exec_log, cancel_at>>

\* step.execute raised: run logs and re-raises, nothing else happens
StepRaised(ctx, log, type) ==
    /\ pctx' = ctx
    /\ cb_log' = log
    /\ orch_pc' = "raised"
    /\ error' = [type |-> type, step |-> Steps[step_i]]
    /\ UNCHANGED <<step_i, skipping, exec_log, cancel_at>>

InStage(name) == orch_pc = "in_stage" /\ Steps[step_i] = name

\* asyncio.Semaphore(3)
SemaphoreSlots == 3

\* gather schedules the tasks one after the other and the semaphore is free
\* for the first three: their first steps (acquire, check_cancelled, the
\* request of llm.chat) run back to back, before any other coroutine
StartBurst ==
    \E j, k \in 1..Min(sm.total, SemaphoreSlots) :
        sm.task[j] # "wait" /\ sm.task[k] = "wait"

\* mutant: skipping ends one step early, so the marker's step is executed
StillSkipping_early(step_name, skip_until_after) ==
    /\ step_name # skip_until_after
    /\ \A k \in 1..(Len(Steps) - 1) :
          Steps[k] = step_name => Steps[k + 1] # skip_until_after

\* run, resume branch: does the loop keep skipping after this step?
StillSkipping(step_name, skip_until_after) == step_name # skip_until_after

\* mutant: a step other than the marker's ends the skipping
OrchSkip_until_mismatch ==
    /\ PipeFrame
    /\ orch_pc = "top" /\ step_i <= TotalSteps /\ skipping
    /\ skipping' = ~StillSkipping(Steps[step_i], pctx.resume_after_step)
    /\ step_i' = step_i + 1
    /\ UNCHANGED <<pctx, orch_pc, error, ex, sm, exec_log, cb_log, attempted,
                   cancel_at>>

\* for-loop body while skipping: the step is not executed
OrchSkip ==
    /\ PipeFrame
    /\ orch_pc = "top" /\ step_i <= TotalSteps /\ skipping
    /\ skipping' = StillSkipping(Steps[step_i], pctx.resume_after_step)
    /\ step_i' = step_i + 1
    /\ UNCHANGED <<pctx, orch_pc, error, ex, sm, exec_log, cb_log, attempted,
                   cancel_at>>

\* the cancellation check before a step raises and unwinds run
OrchCancelled ==
    /\ PipeFrame
    /\ orch_pc = "top" /\ step_i <= TotalSteps /\ ~skipping
    /\ check_cancelled(pctx)
    /\ orch_pc' = "raised"
    /\ error' = [type |-> "PipelineCancelledError", step |-> "boundary"]
    /\ cancel_at' = step_i
    /\ UNCHANGED <<pctx, step_i, skipping, ex, sm, exec_log, cb_log, attempted>>

\* the check passes: base progress is reported and step.execute is entered
OrchStart ==
    /\ PipeFrame
    /\ orch_pc = "top" /\ step_i <= TotalSteps /\ ~skipping
    /\ ~check_cancelled(pctx)
    /\ LET base == ((step_i - 1) * 100 * ProgressScale) \div TotalSteps IN
       /\ pctx' = SetProgress(pctx, base)
       /\ cb_log' = Append(cb_log, ProgressEvent(base))
    /\ exec_log' = Append(exec_log,
                          [step |-> Steps[step_i], flag |-> pctx.cancel_event])
    /\ orch_pc' = "in_stage"
    /\ ex' = IF Steps[step_i] = "extract"
             THEN [i |-> 1, pool_size |-> Len(pctx.videos),
                   success_count |-> 0, results |-> <<>>]
             ELSE ex
    /\ sm' = IF Steps[step_i] = "summarize"
             THEN [total |-> Len(pctx.video_results), completed |-> 0,
                   task |-> [k \in 1..Len(pctx.video_results) |-> "wait"],
                   outcome |-> [k \in 1..Len(pctx.video_results) |-> "none"]]
             ELSE sm
    /\ UNCHANGED <<step_i, skipping, error, attempted, cancel_at>>

\* the loop is exhausted: return context
OrchReturn ==
    /\ PipeFrame
    /\ orch_pc = "top" /\ step_i > TotalSteps
    /\ orch_pc' = "returned"
    /\ UNCHANGED <<pctx, step_i, skipping, error, ex, sm, exec_log, cb_log,
                   attempted, cancel_at>>

\* PipelineContext.cancel, called from outside the run at any time
PipeCancel ==
    /\ PipeFrame
    /\ ~pctx.cancel_event
    /\ ~StartBurst
    /\ orch_pc \in {"top", "in_stage"}
    /\ pctx' = [pctx EXCEPT !.cancel_event = TRUE]
    /\ UNCHANGED <<orch_pc, step_i, skipping, error, ex, sm, exec_log, cb_log,
                   attempted, cancel_at>>

-----------------------------------------------------------------------------
(* SearchStep.execute *)

\* adapter.search_videos returns n stubs with ids 1..n (n = 0: nothing found)
SearchResult(n) == [k \in 1..n |-> k]

\* execute accepting an empty search result
SearchExecute_accepts_empty ==
    /\ PipeFrame
    /\ InStage("search")
    /\ UNCHANGED <<ex, sm, attempted>>
    /\ IF ~RegistryKnows(pctx.platform)
       THEN StepRaised(pctx, cb_log, "ValueError")
       ELSE \/ \E n \in 0..MaxPool :
                StepCompleted([pctx EXCEPT !.videos = SearchResult(n)], cb_log)
            \/ StepRaised(pctx, cb_log, "AdapterError")

SearchExecute ==
    /\ PipeFrame
    /\ InStage("search")
    /\ UNCHANGED <<ex, sm, attempted>>
    /\ IF ~RegistryKnows(pctx.platform)
       THEN StepRaised(pctx, cb_log, "ValueError")
       ELSE \/ \E n \in 0..MaxPool :
                LET ctx == [pctx EXCEPT !.videos = SearchResult(n)] IN
                IF n = 0 THEN StepRaised(ctx, cb_log, "RuntimeError")
                         ELSE StepCompleted(ctx, cb_log)
            \/ StepRaised(pctx, cb_log, "AdapterError")

-----------------------------------------------------------------------------
(* ExtractStep.execute *)

\* mutant: off by one, stops only after target + 1 successes
EarlyStop_late(success_count, target) == success_count > target

\* the early-stop test at the top of each iteration
EarlyStop(success_count, target) == success_count >= target

\* code after the for loop: keep transcripts, trim videos, fail on none
\* the end of execute without the filter on r.transcript
ExtractFinish_unfiltered ==
    LET kept == ex.results
        processed_ids == {ex.results[k].id : k \in 1..Len(ex.results)}
        ctx == [pctx EXCEPT
                  !.video_results = kept,
                  !.videos = SelectSeq(pctx.videos,
                                       LAMBDA v : v \in processed_ids)]
    IN IF kept = <<>> THEN StepRaised(ctx, cb_log, "RuntimeError")
                      ELSE StepCompleted(ctx, cb_log)

ExtractFinish ==
    LET kept == SelectSeq(ex.results, LAMBDA r : r.transcript # "")
        processed_ids == {ex.results[k].id : k \in 1..Len(ex.results)}
        ctx == [pctx EXCEPT
                  !.video_results = kept,
                  !.videos = SelectSeq(pctx.videos,
                                       LAMBDA v : v \in processed_ids)]
    IN IF kept = <<>> THEN StepRaised(ctx, cb_log, "RuntimeError")
                      ELSE StepCompleted(ctx, cb_log)

\* PlatformRegistry.get at the top of execute raises for an unknown platform
ExtractNoAdapter ==
    /\ PipeFrame
    /\ InStage("extract") /\ ex.i = 1 /\ ex.results = <<>>
    /\ ~RegistryKnows(pctx.platform)
    /\ StepRaised(pctx, cb_log, "ValueError")
    /\ UNCHANGED <<ex, sm, attempted>>

\* context.check_cancelled() at the top of an iteration raises
ExtractCancelled ==
    /\ PipeFrame
    /\ InStage("extract") /\ RegistryKnows(pctx.platform)
    /\ ex.i <= Len(pctx.videos)
    /\ check_cancelled(pctx)
    /\ StepRaised(pctx, cb_log, "PipelineCancelledError")
    /\ UNCHANGED <<ex, sm, attempted>>

\* break: the target is reached while candidates remain
ExtractEarlyStop ==
    /\ PipeFrame
    /\ InStage("extract") /\ RegistryKnows(pctx.platform)
    /\ ex.i <= Len(pctx.videos)
    /\ ~check_cancelled(pctx)
    /\ EarlyStop(ex.success_count, pctx.max_videos)
    /\ ExtractFinish
    /\ UNCHANGED <<ex, sm, attempted>>

\* the for loop ran out of candidates
ExtractExhausted ==
    /\ PipeFrame
    /\ InStage("extract") /\ RegistryKnows(pctx.platform)
    /\ ex.i > Len(pctx.videos)
    /\ ExtractFinish
    /\ UNCHANGED <<ex, sm, attempted>>

\* one iteration without the except clause: the error of get_subtitles
\* leaves execute
ExtractAttempt_uncaught ==
    /\ PipeFrame
    /\ InStage("extract") /\ RegistryKnows(pctx.platform)
    /\ ex.i <= Len(pctx.videos)
    /\ ~check_cancelled(pctx)
    /\ ~EarlyStop(ex.success_count, pctx.max_videos)
    /\ \/ /\ StepRaised(pctx, cb_log, "AdapterError")
          /\ attempted' = Append(attempted,
                                 [id |-> pctx.videos[ex.i], ok |-> FALSE])
          /\ UNCHANGED <<ex, sm>>
       \/ /\ \E got \in {"text", "none"} :
               LET v == pctx.videos[ex.i]
                   pool_size == ex.pool_size
                   target == pctx.max_videos
                   sc == IF got = "text" THEN ex.success_count + 1
                                         ELSE ex.success_count
                   r == IF got = "text" THEN VideoResult(v, "t", "subtitle")
                        ELSE VideoResult(v, "", "none")
                   p == IF ex.i * target <= sc * pool_size
                        THEN get_step_progress(1, ex.i, pool_size)
                        ELSE get_step_progress(1, sc, target)
               IN /\ ex' = [ex EXCEPT !.i = ex.i + 1, !.success_count = sc,
                                       !.results = Append(ex.results, r)]
                  /\ attempted' = Append(attempted,
                                         [id |-> v, ok |-> got = "text"])
                  /\ pctx' = SetProgress(pctx, p)
                  /\ cb_log' = Append(cb_log, ProgressEvent(p))
          /\ UNCHANGED <<orch_pc, step_i, skipping, error, sm, exec_log,
                         cancel_at>>

\* one iteration: get_subtitles on videos[i], record the result, progress
ExtractAttempt ==
    /\ PipeFrame
    /\ InStage("extract") /\ RegistryKnows(pctx.platform)
    /\ ex.i <= Len(pctx.videos)
    /\ ~check_cancelled(pctx)
    /\ ~EarlyStop(ex.success_count, pctx.max_videos)
    /\ \E got \in {"text", "none", "raise"} :
         LET v == pctx.videos[ex.i]
             pool_size == ex.pool_size
             target == pctx.max_videos
             sc == IF got = "text" THEN ex.success_count + 1
                                   ELSE ex.success_count
             r == IF got = "text" THEN VideoResult(v, "t", "subtitle")
                  ELSE IF got = "none" THEN VideoResult(v, "", "none")
                  ELSE VideoResult(v, "", "error")
             \* min((i + 1) / pool_size, success_count / target)
             p == IF ex.i * target <= sc * pool_size
                  THEN get_step_progress(1, ex.i, pool_size)
                  ELSE get_step_progress(1, sc, target)
         IN /\ ex' = [ex EXCEPT !.i = ex.i + 1, !.success_count = sc,
                                 !.results = Append(ex.results, r)]
            /\ attempted' = Append(attempted, [id |-> v, ok |-> got = "text"])
            /\ pctx' = SetProgress(pctx, p)
            /\ cb_log' = Append(cb_log, ProgressEvent(p))
    /\ UNCHANGED <<orch_pc, step_i, skipping, error, sm, exec_log, cancel_at>>

-----------------------------------------------------------------------------
(* SummarizeStep.execute *)

InCall == {k \in 1..sm.total : sm.task[k] = "call"}


\* mutant: no except clause, the error leaves the task
TaskAfterCall_uncaught(got) == IF got = "raise" THEN "raised" ELSE "done"

\* limited_summarize after the call: the except clause swallows the error
TaskAfterCall(got) == "done"

\* vr.summary after summarize_one returned (chat may return "") or raised
SummaryAfterCall(got) == IF got = "ok" THEN "s" ELSE ""

\* mutant: no semaphore, every task starts its call at once
SumAcquire_unlimited(k) ==
    /\ PipeFrame
    /\ sm.total >= k /\ sm.task[k] = "wait"
    /\ \A j \in 1..(k - 1) : sm.task[j] # "wait"
    /\ sm' = [sm EXCEPT !.task[k] =
                 IF check_cancelled(pctx) THEN "raised" ELSE "call"]
    /\ UNCHANGED <<pctx, orch_pc, step_i, skipping, error, ex, exec_log,
                   cb_log, attempted, cancel_at>>

\* limited_summarize enters "async with semaphore" (FIFO), then checks the flag
SumAcquire(k) ==
    /\ PipeFrame
    /\ sm.total >= k /\ sm.task[k] = "wait"
    /\ \A j \in 1..(k - 1) : sm.task[j] # "wait"
    /\ Cardinality(InCall) < SemaphoreSlots
    /\ sm' = [sm EXCEPT !.task[k] =
                 IF check_cancelled(pctx) THEN "raised" ELSE "call"]
    /\ UNCHANGED <<pctx, orch_pc, step_i, skipping, error, ex, exec_log,
                   cb_log, attempted, cancel_at>>

\* llm.chat of task k ends; the task stores the summary and reports progress
SumComplete(k) ==
    /\ PipeFrame
    /\ sm.total >= k /\ sm.task[k] = "call"
    /\ ~StartBurst
    /\ \E got \in {"ok", "empty", "raise"} :
         LET done == sm.completed + 1
             p == get_step_progress(2, done, sm.total)
             after == TaskAfterCall(got)
         IN /\ sm' = [sm EXCEPT !.task[k] = after,
                                !.outcome[k] = got,
                                !.completed = IF after = "done" THEN done
                                              ELSE sm.completed]
            /\ IF after = "done"
               THEN /\ pctx' = SetProgress(
                          [pctx EXCEPT !.video_results[k].summary =
                                           SummaryAfterCall(got)], p)
                    /\ cb_log' = Append(cb_log, ProgressEvent(p))
               ELSE UNCHANGED <<pctx, cb_log>>
    /\ UNCHANGED <<orch_pc, step_i, skipping, error, ex, exec_log, attempted,
                   cancel_at>>

\* asyncio.gather returned: every task finished without raising
SumGatherDone ==
    /\ PipeFrame
    /\ InStage("summarize")
    /\ \A k \in 1..sm.total : sm.task[k] = "done"
    /\ LET summarized ==
             CountSeq(pctx.video_results, LAMBDA vr : vr.summary # "")
       IN IF summarized = 0 THEN StepRaised(pctx, cb_log, "RuntimeError")
                            ELSE StepCompleted(pctx, cb_log)
    /\ UNCHANGED <<ex, sm, attempted>>

\* asyncio.gather re-raises the first exception of a task; the other tasks
\* are not cancelled and keep running
SumGatherRaise ==
    /\ PipeFrame
    /\ InStage("summarize")
    /\ ~StartBurst
    /\ \E k \in 1..sm.total : sm.task[k] = "raised"
    /\ StepRaised(pctx, cb_log,
                  IF pctx.cancel_event THEN "PipelineCancelledError"
                                       ELSE "LLMError")
    /\ UNCHANGED <<ex, sm, attempted>>

-----------------------------------------------------------------------------
(* ConsolidateStep.execute, ReportStep.execute *)

ConsolidateExecute ==
    /\ PipeFrame
    /\ InStage("consolidate")
    /\ UNCHANGED <<ex, sm, attempted>>
    /\ IF check_cancelled(pctx)
       THEN StepRaised(pctx, cb_log, "PipelineCancelledError")
       ELSE IF \A k \in 1..Len(pctx.video_results) :
                   pctx.video_results[k].summary = ""
       THEN StepCompleted([pctx EXCEPT !.consolidated_summary = "none"],
                          cb_log)
       ELSE \/ \E text \in {"c", ""} :
                 StepCompleted([pctx EXCEPT !.consolidated_summary = text],
                               cb_log)
            \/ StepRaised(pctx, cb_log, "LLMError")

ReportExecute ==
    /\ PipeFrame
    /\ InStage("report")
    /\ UNCHANGED <<ex, sm, attempted>>
    /\ StepCompleted(
         [pctx EXCEPT
            !.report_json =
               [video_count |-> Len(pctx.video_results),
                videos |-> SelectSeq(pctx.video_results,
                                     LAMBDA vr : vr.summary # "")],
            !.report_markdown = "m"],
         cb_log)

-----------------------------------------------------------------------------
(* Control Loop: AgentContext, tools, run_agent *)

\* the video ids the platform's search can return and the policy can name
VideoIds == {1, 2}

\* what adapter.search_videos can return when it finds something
SearchLists == {<<1>>, <<2>>, <<1, 2>>}

\* longest ctx.search_results explored
MaxDiscovered == 3

\* AgentExecutor(max_iterations=MAX_ITERATIONS): 40 in loop.py, explored here
\* with a shorter step budget
MAX_ITERATIONS == 6

\* ctx.video_data.get(video_id, {}) of an id that is not a key
NoData == [present |-> FALSE, info |-> FALSE, transcript |-> "", summary |-> ""]

NoReportJson == [present |-> FALSE, video_count |-> 0, videos |-> {}]

\* AgentContext(query, platform, max_videos, task_id, ...) as constructed
NewAgentContext(platform, target) ==
    [platform |-> platform,
     max_videos |-> target,
     video_data |-> [v \in VideoIds |-> NoData],
     search_results |-> <<>>,
     report_markdown |-> "",
     report_json |-> NoReportJson,
     progress |-> 0,
     cancel_event |-> FALSE]

\* the ids v with ctx.video_data[v].get("summary") truthy
Summarized(ctx) == {v \in VideoIds : ctx.video_data[v].summary # ""}

\* the ids v with ctx.video_data[v].get("transcript") truthy
Extracted(ctx) == {v \in VideoIds : ctx.video_data[v].transcript # ""}

Max(a, b) == IF a >= b THEN a ELSE b

\* mutant: the heuristic value is reported without the max with the old one
update_progress_no_max(ctx, tool_name) ==
    LET target == Max(ctx.max_videos, 1)
        extracted == Cardinality(Extracted(ctx))
        summarized == Cardinality(Summarized(ctx))
        new == CASE tool_name = "search_videos" -> 10 * ProgressScale
                 [] tool_name = "extract_subtitle" ->
                      15 * ProgressScale
                        + (Min(extracted, target) * 35 * ProgressScale)
                            \div target
                 [] tool_name = "summarize_video" ->
                      50 * ProgressScale
                        + (Min(summarized, target) * 30 * ProgressScale)
                            \div target
                 [] tool_name = "generate_report" -> 90 * ProgressScale
                 [] OTHER -> ctx.progress
    IN new

\* AgentEventHandler._update_progress: the new progress value (scaled)
update_progress(ctx, tool_name) ==
    LET target == Max(ctx.max_videos, 1)
        extracted == Cardinality(Extracted(ctx))
        summarized == Cardinality(Summarized(ctx))
        new == CASE tool_name = "search_videos" -> 10 * ProgressScale
                 [] tool_name = "extract_subtitle" ->
                      15 * ProgressScale
                        + (Min(extracted, target) * 35 * ProgressScale)
                            \div target
                 [] tool_name = "summarize_video" ->
                      50 * ProgressScale
                        + (Min(summarized, target) * 30 * ProgressScale)
                            \div target
                 [] tool_name = "generate_report" -> 90 * ProgressScale
                 [] OTHER -> ctx.progress
    IN Max(ctx.progress, new)

\* update_task_progress, the progress callback: also writes status RUNNING
ProgressCallback(t, p) == [t EXCEPT !.progress = p, !.status = "running"]

\* on_tool_end after a tool returned: _update_progress and set_progress
ToolEnd(ctx, tool_name) ==
    /\ actx' = [ctx EXCEPT !.progress = update_progress(ctx, tool_name)]
    /\ task' = ProgressCallback(task, update_progress(ctx, tool_name))

\* do_generate_report when llm.chat returns: nothing is written without a
\* summarized video, otherwise report_markdown and report_json are replaced
do_generate_report(ctx) ==
    IF Summarized(ctx) = {} THEN ctx
    ELSE [ctx EXCEPT
            !.report_markdown = "report",
            !.report_json = [present |-> TRUE,
                             video_count |-> Cardinality(Summarized(ctx)),
                             videos |-> Summarized(ctx)]]

\* extract_subtitle / backfill storing a transcript: a missing entry is
\* created with the info get_video_info finds in search_results
WithTranscript(ctx, v) ==
    [ctx EXCEPT !.video_data[v] =
        IF ctx.video_data[v].present
        THEN [ctx.video_data[v] EXCEPT !.transcript = "t"]
        ELSE [present |-> TRUE,
              info |-> v \in Range(ctx.search_results),
              transcript |-> "t", summary |-> ""]]

WithSummary(ctx, v, text) == [ctx EXCEPT !.video_data[v].summary = text]

\* search_videos storing its result
WithSearch(ctx, videos) ==
    [ctx EXCEPT
       !.video_data = [v \in VideoIds |->
            IF v \in Range(videos) /\ ~ctx.video_data[v].present
            THEN [present |-> TRUE, info |-> TRUE,
                  transcript |-> "", summary |-> ""]
            ELSE ctx.video_data[v]],
       !.search_results = ctx.search_results \o videos]

InLoop == a_pc = "loop" /\ iterations < MAX_ITERATIONS

\* the run acted on behalf of the task; remember whether the flag was set
Acted == [hist EXCEPT !.acted_after_cancel =
             hist.acted_after_cancel \/ actx.cancel_event]

\* executor.ainvoke returned; run_agent goes on to backfill and the
\* executor's step counter is gone
LoopEnds ==
    /\ a_pc' = "backfill"
    /\ iterations' = 0
    /\ UNCHANGED <<actx, task, db, active, bf, hist>>

\* a tool raised: AgentExecutor lets it out of ainvoke, run_agent catches it
ToolRaises ==
    /\ a_pc' = "backfill"
    /\ hist' = Acted
    /\ iterations' = 0
    /\ UNCHANGED <<actx, task, db, active, bf>>

\* tool search_videos
PolicySearch ==
    /\ AgentFrame
    /\ InLoop
    /\ IF ~RegistryKnows(actx.platform) THEN ToolRaises
       ELSE \/ ToolRaises
            \/ /\ \E videos \in SearchLists \cup {<<>>} :
                    /\ Len(actx.search_results) + Len(videos) <= MaxDiscovered
                    /\ IF videos = <<>>
                       THEN ToolEnd(actx, "search_videos")
                       ELSE ToolEnd(WithSearch(actx, videos), "search_videos")
               /\ iterations' = iterations + 1
               /\ hist' = Acted
               /\ UNCHANGED <<db, active, a_pc, bf>>

\* tool extract_subtitle
PolicyExtract(v) ==
    /\ AgentFrame
    /\ InLoop
    /\ IF actx.video_data[v].transcript # ""
       THEN /\ ToolEnd(actx, "extract_subtitle")
            /\ iterations' = iterations + 1
            /\ hist' = [Acted EXCEPT !.repeated = TRUE]
            /\ UNCHANGED <<db, active, a_pc, bf>>
       ELSE IF ~RegistryKnows(actx.platform) THEN ToolRaises
       ELSE \/ ToolRaises
            \/ /\ \E got \in {"text", "none"} :
                    IF got = "none"
                    THEN ToolEnd(actx, "extract_subtitle")
                    ELSE ToolEnd(WithTranscript(actx, v), "extract_subtitle")
               /\ iterations' = iterations + 1
               /\ hist' = Acted
               /\ UNCHANGED <<db, active, a_pc, bf>>

\* mutant: no early return for an item that already has a summary
PolicySummarize_again(v) ==
    /\ AgentFrame
    /\ InLoop
    /\ IF actx.video_data[v].transcript = ""
       THEN /\ ToolEnd(actx, "summarize_video")
            /\ iterations' = iterations + 1
            /\ hist' = Acted
            /\ UNCHANGED <<db, active, a_pc, bf>>
       ELSE \/ ToolRaises
            \/ /\ \E text \in {"s", ""} :
                    ToolEnd(WithSummary(actx, v, text), "summarize_video")
               /\ iterations' = iterations + 1
               /\ hist' = Acted
               /\ UNCHANGED <<db, active, a_pc, bf>>

\* tool summarize_video
PolicySummarize(v) ==
    /\ AgentFrame
    /\ InLoop
    /\ IF actx.video_data[v].transcript = "" \/ actx.video_data[v].summary # ""
       THEN /\ ToolEnd(actx, "summarize_video")
            /\ iterations' = iterations + 1
            /\ hist' = [Acted EXCEPT !.repeated =
                                       @ \/ actx.video_data[v].summary # ""]
            /\ UNCHANGED <<db, active, a_pc, bf>>
       ELSE \/ ToolRaises
            \/ /\ \E text \in {"s", ""} :
                    ToolEnd(WithSummary(actx, v, text), "summarize_video")
               /\ iterations' = iterations + 1
               /\ hist' = Acted
               /\ UNCHANGED <<db, active, a_pc, bf>>

\* tool generate_report
PolicyReport ==
    /\ AgentFrame
    /\ InLoop
    /\ \/ Summarized(actx) # {} /\ ToolRaises
       \/ /\ ToolEnd(do_generate_report(actx), "generate_report")
          /\ iterations' = iterations + 1
          /\ hist' = Acted
          /\ UNCHANGED <<db, active, a_pc, bf>>

\* the policy's output does not parse or names no tool: the iteration is
\* spent and the correction is fed back
PolicyBadOutput ==
    /\ AgentFrame
    /\ InLoop
    /\ iterations' = iterations + 1
    /\ UNCHANGED <<actx, task, db, active, a_pc, bf, hist>>

\* the policy answers "Final Answer"
LoopFinish ==
    /\ AgentFrame
    /\ InLoop
    /\ LoopEnds

\* max_iterations reached
LoopStepLimit ==
    /\ AgentFrame
    /\ a_pc = "loop" /\ iterations >= MAX_ITERATIONS
    /\ LoopEnds

\* max_execution_time reached
LoopTimeout ==
    /\ AgentFrame
    /\ InLoop
    /\ LoopEnds

\* the policy's own generation call raised
LoopPolicyError ==
    /\ AgentFrame
    /\ InLoop
    /\ LoopEnds


-----------------------------------------------------------------------------
(* _backfill_videos, _force_generate_report *)

BfIdle == [candidates |-> <<>>, idx |-> 0, filled |-> 0, gap |-> 0]

\* the exception leaves run_agent; run_analysis_task's handler takes over
RunRaises(type) ==
    /\ a_pc' = "except"
    /\ hist' = [Acted EXCEPT !.run_error = type]

\* the candidate list: search_results entries without a summary, in order
Candidates(ctx) ==
    SelectSeq(ctx.search_results, LAMBDA v : ctx.video_data[v].summary = "")

\* entry of _backfill_videos up to the for loop
BackfillStart ==
    /\ AgentFrame
    /\ a_pc = "backfill"
    /\ UNCHANGED <<actx, task, db, active, iterations>>
    /\ LET summarized_count == Cardinality(Summarized(actx))
           target == actx.max_videos
           h == [hist EXCEPT !.backfill_calls = hist.backfill_calls + 1]
       IN IF summarized_count >= target
          THEN /\ a_pc' = "force"
               /\ hist' = h
               /\ bf' = bf
          ELSE IF ~RegistryKnows(actx.platform)
          THEN /\ a_pc' = "except"
               /\ hist' = [h EXCEPT !.run_error = "ValueError"]
               /\ bf' = bf
          ELSE /\ a_pc' = "bf_loop"
               /\ hist' = h
               /\ bf' = [candidates |-> Candidates(actx), idx |-> 1,
                         filled |-> 0, gap |-> target - summarized_count]

\* the for loop is left: by break, or because the candidates ran out
BackfillLoopOver == bf.idx > Len(bf.candidates) \/ bf.filled >= bf.gap

\* one iteration of the for loop over candidates
BackfillCandidate ==
    /\ AgentFrame
    /\ a_pc = "bf_loop" /\ ~BackfillLoopOver
    /\ UNCHANGED <<db, active, iterations>>
    /\ LET v == bf.candidates[bf.idx]
       IN \E ext \in {"text", "none", "raise"}, sum \in {"s", "", "raise"} :
            IF actx.video_data[v].transcript = "" /\ ext = "raise"
            THEN \* adapter.get_subtitles raised
                 /\ RunRaises("AdapterError")
                 /\ UNCHANGED <<actx, task, bf>>
            ELSE IF actx.video_data[v].transcript = "" /\ ext = "none"
            THEN \* no subtitles: continue
                 /\ bf' = [bf EXCEPT !.idx = bf.idx + 1]
                 /\ hist' = Acted
                 /\ UNCHANGED <<actx, task, a_pc>>
            ELSE LET got == IF actx.video_data[v].transcript = ""
                            THEN WithTranscript(actx, v) ELSE actx
                 IN IF sum = "raise"
                    THEN \* llm.chat raised after its retries
                         /\ actx' = got
                         /\ RunRaises("LLMError")
                         /\ UNCHANGED <<task, bf>>
                    ELSE LET done == WithSummary(got, v, sum)
                             total == Cardinality(Summarized(done))
                             target == Max(actx.max_videos, 1)
                             pct == 50 * ProgressScale
                                     + (Min(total, target) * 30 * ProgressScale)
                                         \div target
                             p == Max(actx.progress, pct)
                         IN /\ actx' = [done EXCEPT !.progress = p]
                            /\ task' = ProgressCallback(task, p)
                            /\ bf' = [bf EXCEPT !.idx = bf.idx + 1,
                                                !.filled = bf.filled + 1]
                            /\ hist' = Acted
                            /\ a_pc' = a_pc

\* after the loop: regenerate a report the policy had produced
BackfillEnd ==
    /\ AgentFrame
    /\ a_pc = "bf_loop" /\ BackfillLoopOver
    /\ UNCHANGED <<task, db, active, iterations, bf>>
    /\ IF bf.filled > 0 /\ actx.report_markdown # ""
       THEN LET cleared == [actx EXCEPT !.report_markdown = ""] IN
            \/ /\ actx' = do_generate_report(cleared)
               /\ a_pc' = "force"
               /\ hist' = Acted
            \/ /\ Summarized(cleared) # {}
               /\ actx' = cleared
               /\ RunRaises("LLMError")
       ELSE /\ a_pc' = "force"
            /\ UNCHANGED <<actx, hist>>

\* run_agent's last statement and _force_generate_report
ForceReport ==
    /\ AgentFrame
    /\ a_pc = "force"
    /\ a_pc' = "persist"
    /\ hist' = [hist EXCEPT !.force_checks = hist.force_checks + 1]
    /\ UNCHANGED <<task, db, active, iterations, bf>>
    /\ IF actx.report_markdown # "" THEN actx' = actx
       ELSE IF Summarized(actx) # {}
       THEN \/ actx' = do_generate_report(actx)
            \/ actx' = [actx EXCEPT !.report_markdown = "report_failed"]
       ELSE actx' = [actx EXCEPT !.report_markdown = "no_content"]

-----------------------------------------------------------------------------
(* run_analysis_task, persist_final_results, cancel_task *)

NewTask == [status |-> "pending", progress |-> 0, error_message |-> "",
            completed_step |-> ""]

NoDb == [videos |-> {}, report |-> ""]

NoHist == [run_error |-> "none", backfill_calls |-> 0, force_checks |-> 0,
           acted_after_cancel |-> FALSE, repeated |-> FALSE]

\* the rows persist_final_results leaves: videos that have an info and a
\* transcript or summary, and the report if report_markdown is not empty
Persisted(ctx) ==
    [videos |-> {v \in VideoIds :
                   /\ ctx.video_data[v].present /\ ctx.video_data[v].info
                   /\ (ctx.video_data[v].transcript # ""
                         \/ ctx.video_data[v].summary # "")},
     report |-> ctx.report_markdown]

\* the background task starts: status RUNNING is committed
RunStart ==
    /\ AgentFrame
    /\ a_pc = "queued"
    /\ task' = [task EXCEPT !.status = "running"]
    /\ a_pc' = "starting"
    /\ UNCHANGED <<actx, db, active, iterations, bf, hist>>

\* the task row is read again, the context is built and registered
RunRegister ==
    /\ AgentFrame
    /\ a_pc = "starting"
    /\ actx' = NewAgentContext(actx.platform, actx.max_videos)
    /\ active' = TRUE
    /\ a_pc' = "loop"
    /\ UNCHANGED <<task, db, iterations, bf, hist>>

\* persist_final_results, on the normal path and in the except handler
RunPersist ==
    /\ AgentFrame
    /\ a_pc \in {"persist", "except"}
    /\ db' = Persisted(actx)
    /\ task' = [task EXCEPT !.completed_step = "report"]
    /\ a_pc' = IF a_pc = "persist" THEN "mark_done" ELSE "mark_failed"
    /\ UNCHANGED <<actx, active, iterations, bf, hist>>

\* status DONE, progress 100; finally: the context is unregistered
RunMarkDone ==
    /\ AgentFrame
    /\ a_pc = "mark_done"
    /\ task' = [task EXCEPT !.status = "done",
                            !.progress = 100 * ProgressScale]
    /\ active' = FALSE
    /\ a_pc' = "ended"
    /\ UNCHANGED <<actx, db, iterations, bf, hist>>

\* the run without its except Exception handler: only finally runs
RunMarkFailed_unhandled ==
    /\ AgentFrame
    /\ a_pc = "mark_failed"
    /\ active' = FALSE
    /\ a_pc' = "ended"
    /\ UNCHANGED <<actx, task, db, iterations, bf, hist>>

\* except Exception: status FAILED with str(e); finally as above
RunMarkFailed ==
    /\ AgentFrame
    /\ a_pc = "mark_failed"
    /\ task' = [task EXCEPT !.status = "failed",
                            !.error_message = hist.run_error]
    /\ active' = FALSE
    /\ a_pc' = "ended"
    /\ UNCHANGED <<actx, db, iterations, bf, hist>>

\* POST /tasks/{id}/cancel
CancelRequest ==
    /\ AgentFrame
    /\ task.status \in {"running", "pending"}
    /\ IF active
       THEN /\ ~actx.cancel_event
            /\ actx' = [actx EXCEPT !.cancel_event = TRUE]
            /\ UNCHANGED <<task, hist>>
       ELSE /\ task' = [task EXCEPT !.status = "cancelled",
                                    !.error_message = "cancelled by user"]
            /\ UNCHANGED <<actx, hist>>
    /\ UNCHANGED <<db, active, a_pc, iterations, bf>>

\* a run of a task created with the given platform and target count
AgentQueued ==
    /\ \E platform \in Platforms, target \in 1..MaxTarget :
         actx = NewAgentContext(platform, target)
    /\ task = NewTask
    /\ db = NoDb
    /\ active = FALSE
    /\ a_pc = "queued"
    /\ iterations = 0
    /\ bf = BfIdle
    /\ hist = NoHist

\* no control-loop run: there is no Task row, so cancel_task answers 404
AgentParked ==
    /\ actx = NewAgentContext("bilibili", 1)
    /\ task = [NewTask EXCEPT !.status = "absent"]
    /\ db = NoDb
    /\ active = FALSE
    /\ a_pc = "parked"
    /\ iterations = 0
    /\ bf = BfIdle
    /\ hist = NoHist

\* the steps of the background run
NextRun ==
    \/ RunStart
    \/ RunRegister
    \/ PolicySearch
    \/ \E v \in VideoIds : PolicyExtract(v)
    \/ \E v \in VideoIds : PolicySummarize(v)
    \/ PolicyReport
    \/ PolicyBadOutput
    \/ LoopFinish
    \/ LoopStepLimit
    \/ LoopTimeout
    \/ LoopPolicyError
    \/ BackfillStart
    \/ BackfillCandidate
    \/ BackfillEnd
    \/ ForceReport
    \/ RunPersist
    \/ RunMarkDone
    \/ RunMarkFailed

NextAgent ==
    \/ NextRun
    \/ CancelRequest

-----------------------------------------------------------------------------
(* BilibiliAdapter._get_subtitle_list_from_player *)

MAX_SUBTITLE_RETRIES == 8

\* most tracks in one player response
MaxTracks == 2

\* sub.get("subtitle_url", "") by what the verification tests of it: empty,
\* not an AI-subtitle URL and without str(aid), not an AI-subtitle URL but
\* with str(aid) in it, an AI-subtitle URL that contains str(aid), an
\* AI-subtitle URL that does not
TrackUrls == {"", "plain", "plain_aid", "ai_match", "ai_other"}

\* aid_str in url
EmbedsAid(url) == url \in {"plain_aid", "ai_match"}

TrackLists == UNION {[1..n -> TrackUrls] : n \in 1..MaxTracks}

\* "/ai_subtitle/" in url and aid_str not in url
IsMismatch(url) == url \in {"ai_match", "ai_other"} /\ ~EmbedsAid(url)

\* the list verified_subs built from subs
VerifiedSubs(subs) == SelectSeq(subs, LAMBDA url : url # "" /\ ~IsMismatch(url))

NoResponse == [kind |-> "none", subs |-> <<>>]

\* the test "attempt < MAX_SUBTITLE_RETRIES" with a shorter budget
MayRetry_short(attempt) == attempt < MAX_SUBTITLE_RETRIES - 1

\* if attempt < MAX_SUBTITLE_RETRIES: sleep and continue
MayRetry(attempt) == attempt < MAX_SUBTITLE_RETRIES

\* except Exception around the whole attempt: whatever the request, the
\* signing-key lookup or the decoding raises is caught there
Caught(exc) == exc \in {"HTTPStatusError", "TransportError", "ValueError"}

\* the attempt did not produce tracks: retry, or return [] on the last one
AttemptFails(resp, mismatch) ==
    IF MayRetry(sub.attempt)
    THEN sub' = [sub EXCEPT !.attempt = sub.attempt + 1,
                            !.last = resp,
                            !.mismatches = sub.mismatches + mismatch]
    ELSE sub' = [sub EXCEPT !.pc = "returned",
                            !.result = <<>>,
                            !.last = resp,
                            !.mismatches = sub.mismatches + mismatch]

\* the request, raise_for_status or resp.json() raised
PlayerRaises ==
    /\ SubFrame
    /\ sub.pc = "request"
    /\ \E exc \in {"HTTPStatusError", "TransportError", "ValueError"} :
         IF Caught(exc)
         THEN AttemptFails([kind |-> "raise", subs |-> <<>>], 0)
         ELSE sub' = [sub EXCEPT !.pc = "raised"]

\* data.get("code") != 0
PlayerErrorCode ==
    /\ SubFrame
    /\ sub.pc = "request"
    /\ AttemptFails([kind |-> "code", subs |-> <<>>], 0)

\* the response carries no subtitle tracks
PlayerNoTracks ==
    /\ SubFrame
    /\ sub.pc = "request"
    /\ AttemptFails([kind |-> "zero", subs |-> <<>>], 0)

\* the response carries tracks: verify them against aid when it is known
PlayerTracks ==
    /\ SubFrame
    /\ sub.pc = "request"
    /\ \E subs \in TrackLists :
         LET resp == [kind |-> "tracks", subs |-> subs] IN
         IF ~sub.aid
         THEN sub' = [sub EXCEPT !.pc = "returned", !.result = subs,
                                 !.last = resp]
         ELSE IF VerifiedSubs(subs) # <<>>
         THEN sub' = [sub EXCEPT !.pc = "returned",
                                 !.result = VerifiedSubs(subs),
                                 !.last = resp]
         ELSE AttemptFails(resp, 1)

NewSubtitleCall(aid) ==
    [pc |-> "request", attempt |-> 1, aid |-> aid, last |-> NoResponse,
     result |-> <<>>, mismatches |-> 0]

\* a call with aid from the view API (TRUE) or without one (FALSE)
SubtitleCalled == \E aid \in BOOLEAN : sub = NewSubtitleCall(aid)

SubParked == sub = [NewSubtitleCall(FALSE) EXCEPT !.pc = "parked"]

NextSubtitle ==
    \/ PlayerRaises
    \/ PlayerErrorCode
    \/ PlayerNoTracks
    \/ PlayerTracks

-----------------------------------------------------------------------------
(* _get_wbi_mixin_key and _signed_get, shared by concurrent callers *)

\* _wbi_key_expires = now + 1800
WBI_KEY_TTL == 1800

\* the clock advances in steps of half a TTL
ClockStep == WBI_KEY_TTL \div 2

\* clock steps explored
MaxTicks == 4

\* coroutines of concurrent runs that sign requests with the shared cache
Callers == {"run1", "run2"}

\* if _wbi_mixin_key and now < _wbi_key_expires
CacheFresh(key, now, expires) == key # "" /\ now < expires

\* lookup with a usable cached key: it is returned without a request
WbiCacheHit(p) ==
    /\ WbiFrame
    /\ wbi.pc[p] = "idle"
    /\ CacheFresh(wbi.key, wbi.now, wbi.expires)
    /\ wbi' = [wbi EXCEPT !.pc[p] = "signed"]

\* lookup without one: now is captured and the nav request is awaited
WbiCacheMiss(p) ==
    /\ WbiFrame
    /\ wbi.pc[p] = "idle"
    /\ ~CacheFresh(wbi.key, wbi.now, wbi.expires)
    /\ wbi' = [wbi EXCEPT !.pc[p] = "fetching", !.t0[p] = wbi.now]

\* the nav request returned: the key is stored, expiring 1800 s after the
\* time captured before the request
WbiFetchReturn(p) ==
    /\ WbiFrame
    /\ wbi.pc[p] = "fetching"
    /\ wbi' = [wbi EXCEPT !.key = "key",
                          !.expires = wbi.t0[p] + WBI_KEY_TTL,
                          !.fetched = wbi.fetched \cup {<<p, wbi.t0[p]>>},
                          !.pc[p] = "signed",
                          !.t0[p] = 0]

\* the nav request, raise_for_status or the key derivation raised: nothing
\* is cached and the caller's request is not sent
WbiFetchRaises(p) ==
    /\ WbiFrame
    /\ wbi.pc[p] = "fetching"
    /\ wbi' = [wbi EXCEPT !.pc[p] = "idle", !.t0[p] = 0]

\* _signed_get sends the signed request
WbiRequestSent(p) ==
    /\ WbiFrame
    /\ wbi.pc[p] = "signed"
    /\ wbi' = [wbi EXCEPT !.pc[p] = "idle"]

\* time.time() advances
WbiTick ==
    /\ WbiFrame
    /\ wbi.now < MaxTicks * ClockStep
    /\ wbi' = [wbi EXCEPT !.now = wbi.now + ClockStep]

\* module load: _wbi_mixin_key = None, _wbi_key_expires = 0
NewWbi(pc) ==
    [key |-> "", expires |-> 0, now |-> 0,
     pc |-> [p \in Callers |-> pc], t0 |-> [p \in Callers |-> 0],
     fetched |-> {}]

WbiLoaded == wbi = NewWbi("idle")

WbiParked == wbi = NewWbi("parked")

NextWbi ==
    \/ \E p \in Callers : WbiCacheHit(p)
    \/ \E p \in Callers : WbiCacheMiss(p)
    \/ \E p \in Callers : WbiFetchReturn(p)
    \/ \E p \in Callers : WbiFetchRaises(p)
    \/ \E p \in Callers : WbiRequestSent(p)
    \/ WbiTick

AdapterParked == SubParked /\ WbiParked

-----------------------------------------------------------------------------
(* One Task, the runs scheduled for it, cancel_task and retry_task *)

\* background runs scheduled for the task: one by create_task, the others
\* by retry_task
MaxRuns == 2

Runs == 1..MaxRuns

\* the Task row after create_task and the run it scheduled; registered is the
\* run whose context is _active_contexts[task_id], 0 for no entry
NewLife(pc1) ==
    [status |-> "pending", error_message |-> "",
     pc |-> [r \in Runs |-> IF r = 1 THEN pc1 ELSE "none"],
     registered |-> 0,
     cancel_event |-> [r \in Runs |-> FALSE]]

\* run_analysis_task: status RUNNING is committed
TaskRunStart(r) ==
    /\ LifeFrame
    /\ life.pc[r] = "scheduled"
    /\ life' = [life EXCEPT !.status = "running", !.pc[r] = "starting"]

\* run_analysis_task: the context is built and put in _active_contexts
TaskRunRegister(r) ==
    /\ LifeFrame
    /\ life.pc[r] = "starting"
    /\ life' = [life EXCEPT !.registered = r, !.pc[r] = "running"]

\* update_task_progress called by the run
TaskRunProgress(r) ==
    /\ LifeFrame
    /\ life.pc[r] = "running"
    /\ life' = [life EXCEPT !.status = "running"]

\* run_agent and persist_final_results returned: DONE; finally pops the
\* task's entry of _active_contexts
TaskRunDone(r) ==
    /\ LifeFrame
    /\ life.pc[r] = "running"
    /\ life' = [life EXCEPT !.status = "done", !.registered = 0,
                            !.pc[r] = "ended"]

\* except Exception: FAILED with the message; finally as above
TaskRunFailed(r) ==
    /\ LifeFrame
    /\ life.pc[r] = "running"
    /\ life' = [life EXCEPT !.status = "failed", !.error_message = "error",
                            !.registered = 0, !.pc[r] = "ended"]

\* POST /tasks/{id}/cancel
cancel_task ==
    /\ LifeFrame
    /\ life.status \in {"running", "pending"}
    /\ IF life.registered # 0
       THEN /\ ~life.cancel_event[life.registered]
            /\ life' = [life EXCEPT !.cancel_event[life.registered] = TRUE]
       ELSE life' = [life EXCEPT !.status = "cancelled",
                                 !.error_message = "cancelled by user"]

\* POST /tasks/{id}/retry: a new background run is scheduled
retry_task ==
    /\ LifeFrame
    /\ life.status \in {"failed", "cancelled"}
    /\ \E r \in Runs :
         /\ life.pc[r] = "none"
         /\ \A q \in 1..(r - 1) : life.pc[q] # "none"
         /\ life' = [life EXCEPT !.status = "pending", !.error_message = "",
                                 !.pc[r] = "scheduled"]

TaskCreated == life = NewLife("scheduled")

LifeParked == life = NewLife("parked")

NextLife ==
    \/ \E r \in Runs : TaskRunStart(r)
    \/ \E r \in Runs : TaskRunRegister(r)
    \/ \E r \in Runs : TaskRunProgress(r)
    \/ \E r \in Runs : TaskRunDone(r)
    \/ \E r \in Runs : TaskRunFailed(r)
    \/ cancel_task
    \/ retry_task

-----------------------------------------------------------------------------
(* tools._ctx and the tools, with the runs of two tasks in progress *)

\* the runs of two different tasks
TaskRuns == {"a", "b"}

\* items the platform returns for one task's query
MaxItems == 1

\* the items found for the query of run r
ItemsOf(r) == {<<r, i>> : i \in 1..MaxItems}

NewRunContext ==
    [search_results |-> {}, transcripts |-> {}, summaries |-> {},
     report |-> {}]

\* get_context(): the context the module-level _ctx refers to
get_context == tools.ctx_ref

\* run_agent binds its context: set_context(ctx)
set_context(r) ==
    /\ ToolsFrame
    /\ tools.pc[r] = "new"
    /\ tools' = [tools EXCEPT !.ctx_ref = r, !.pc[r] = "loop"]

\* the policy of run r calls search_videos
search_videos(r) ==
    /\ ToolsFrame
    /\ tools.pc[r] = "loop"
    /\ \E found \in SUBSET ItemsOf(r) :
         /\ found # {}
         /\ tools' = [tools EXCEPT !.ctx[get_context].search_results =
                          tools.ctx[get_context].search_results \cup found]

\* the policy of run r calls extract_subtitle for an item of its query
extract_subtitle(r, v) ==
    /\ ToolsFrame
    /\ tools.pc[r] = "loop"
    /\ v \notin tools.ctx[get_context].transcripts
    /\ tools' = [tools EXCEPT !.ctx[get_context].transcripts =
                     tools.ctx[get_context].transcripts \cup {v}]

\* the policy of run r calls summarize_video for an item of its query
summarize_video(r, v) ==
    /\ ToolsFrame
    /\ tools.pc[r] = "loop"
    /\ v \in tools.ctx[get_context].transcripts
    /\ v \notin tools.ctx[get_context].summaries
    /\ tools' = [tools EXCEPT !.ctx[get_context].summaries =
                     tools.ctx[get_context].summaries \cup {v}]

\* the policy of run r calls generate_report
generate_report(r) ==
    /\ ToolsFrame
    /\ tools.pc[r] = "loop"
    /\ tools.ctx[get_context].summaries # {}
    /\ tools' = [tools EXCEPT !.ctx[get_context].report =
                     tools.ctx[get_context].summaries]

\* executor.ainvoke of run r returns
AinvokeReturns(r) ==
    /\ ToolsFrame
    /\ tools.pc[r] = "loop"
    /\ tools' = [tools EXCEPT !.pc[r] = "done"]

\* module load: _ctx = None; both runs are about to call run_agent
NewTools(pc) ==
    [ctx_ref |-> "none",
     pc |-> [r \in TaskRuns |-> pc],
     ctx |-> [r \in TaskRuns |-> NewRunContext]]

TwoRunsStarted == tools = NewTools("new")

ToolsParked == tools = NewTools("parked")

NextTools ==
    \/ \E r \in TaskRuns : set_context(r)
    \/ \E r \in TaskRuns : search_videos(r)
    \/ \E r \in TaskRuns : \E v \in ItemsOf(r) : extract_subtitle(r, v)
    \/ \E r \in TaskRuns : \E v \in ItemsOf(r) : summarize_video(r, v)
    \/ \E r \in TaskRuns : generate_report(r)
    \/ \E r \in TaskRuns : AinvokeReturns(r)

ServiceParked == LifeParked /\ ToolsParked

-----------------------------------------------------------------------------
(* OpenAICompatibleProvider.chat and chat_json (llm/provider.py) *)

MAX_RETRIES == 3

\* seconds
RETRY_BASE_DELAY == 2

\* longest answer of the model explored, in lines
MaxLines == 3

\* a line of an answer: one starting with ```, a complete JSON document,
\* other text, or white space only
LineKinds == {"fence", "json", "junk", "blank"}

\* message.content as a string, split at "\n"
Answers == UNION {[1..n -> LineKinds] : n \in 0..MaxLines}

\* message.content = None
NoContent == <<"None">>

\* what completions.create (or reading choices[0]) can raise
CreateErrors == {"APITimeoutError", "RateLimitError"}

\* messages[0] as handed in by the caller
MessageHeads == {"no_system", "system_plain", "system_json"}

\* content or ""
OrEmpty(content) == IF content = NoContent THEN <<>> ELSE content

RECURSIVE LStrip(_)
LStrip(text) ==
    IF text # <<>> /\ Head(text) = "blank" THEN LStrip(Tail(text)) ELSE text

RECURSIVE RStrip(_)
RStrip(text) ==
    IF text # <<>> /\ text[Len(text)] = "blank"
    THEN RStrip(SubSeq(text, 1, Len(text) - 1))
    ELSE text

\* text.strip()
Strip(text) == RStrip(LStrip(text))

\* lines[1:-1] when the text starts with ``` and has more than two lines
StripFence(text) ==
    IF text # <<>> /\ Head(text) = "fence"
    THEN IF Len(text) > 2 THEN SubSeq(text, 2, Len(text) - 1) ELSE text
    ELSE text

\* json.loads(text) returns: one document, white space around it allowed
JsonLoads(text) == Strip(text) = <<"json">>

NewLlm(pc, head) ==
    [pc         |-> pc,
     call       |-> "none",
     messages   |-> head,
     attempt    |-> 0,
     last_exc   |-> "None",
     text       |-> <<>>,
     parsed     |-> <<>>,
     result     |-> [kind |-> "none", error |-> ""],
     chat_calls |-> 0,
     log        |-> <<>>]

CreateEvent(attempt, outcome) ==
    [kind |-> "create", attempt |-> attempt, outcome |-> outcome, delay |-> 0]

SleepEvent(attempt, delay) ==
    [kind |-> "sleep", attempt |-> attempt, outcome |-> "", delay |-> delay]

\* a caller awaits chat(messages): up to the first completions.create
chat ==
    /\ LlmFrame
    /\ llm.pc = "idle"
    /\ llm' = [llm EXCEPT !.pc = "create", !.call = "chat",
                          !.attempt = 1, !.last_exc = "None",
                          !.chat_calls = @ + 1]

\* a caller awaits chat_json(messages): the JSON instruction is appended to
\* or inserted as the system message, then self.chat is awaited
chat_json ==
    /\ LlmFrame
    /\ llm.pc = "idle"
    /\ llm' = [llm EXCEPT !.pc = "create", !.call = "chat_json",
                          !.messages = "system_json",
                          !.attempt = 1, !.last_exc = "None",
                          !.chat_calls = @ + 1]

\* completions.create returns: chat returns the content
CreateReturns ==
    /\ LlmFrame
    /\ llm.pc = "create"
    /\ \E content \in Answers \cup {NoContent} :
         llm' = [llm EXCEPT
                   !.log = Append(@, CreateEvent(llm.attempt, "ok")),
                   !.text = OrEmpty(content),
                   !.pc = IF llm.call = "chat" THEN "done" ELSE "parse",
                   !.result = IF llm.call = "chat"
                              THEN [kind |-> "text", error |-> ""]
                              ELSE @]

\* the except branch surfacing the error of the first attempt
CreateRaises_first_error(e) ==
    /\ LlmFrame
    /\ llm.pc = "create"
    /\ LET first == IF llm.last_exc = "None" THEN e ELSE llm.last_exc IN
       IF llm.attempt < MAX_RETRIES
       THEN llm' = [llm EXCEPT
                      !.log = @ \o <<CreateEvent(llm.attempt, e),
                                     SleepEvent(llm.attempt,
                                        RETRY_BASE_DELAY
                                          * (2 ^ (llm.attempt - 1)))>>,
                      !.last_exc = first,
                      !.pc = "sleeping"]
       ELSE llm' = [llm EXCEPT
                      !.log = Append(@, CreateEvent(llm.attempt, e)),
                      !.last_exc = first,
                      !.result = [kind |-> "error", error |-> first],
                      !.pc = "done"]

\* completions.create raises: the except branch, and raise last_exc after
\* the last attempt
CreateRaises(e) ==
    /\ LlmFrame
    /\ llm.pc = "create"
    /\ IF llm.attempt < MAX_RETRIES
       THEN llm' = [llm EXCEPT
                      !.log = @ \o <<CreateEvent(llm.attempt, e),
                                     SleepEvent(llm.attempt,
                                        RETRY_BASE_DELAY
                                          * (2 ^ (llm.attempt - 1)))>>,
                      !.last_exc = e,
                      !.pc = "sleeping"]
       ELSE llm' = [llm EXCEPT
                      !.log = Append(@, CreateEvent(llm.attempt, e)),
                      !.last_exc = e,
                      !.result = [kind |-> "error", error |-> e],
                      !.pc = "done"]

\* asyncio.sleep(delay) returns: the next attempt
SleepReturns ==
    /\ LlmFrame
    /\ llm.pc = "sleeping"
    /\ llm' = [llm EXCEPT !.attempt = @ + 1, !.pc = "create"]

\* the rest of chat_json asking the model again when the answer does not
\* parse
ParseJson_asks_again ==
    /\ LlmFrame
    /\ llm.pc = "parse"
    /\ LET text == StripFence(Strip(llm.text)) IN
       IF JsonLoads(text)
       THEN llm' = [llm EXCEPT !.parsed = text,
                               !.result = [kind |-> "json", error |-> ""],
                               !.pc = "done"]
       ELSE /\ llm.chat_calls < MAX_RETRIES
            /\ llm' = [llm EXCEPT !.parsed = text, !.pc = "create",
                                  !.attempt = 1, !.chat_calls = @ + 1]

\* the rest of chat_json: strip, drop the fence lines, json.loads
ParseJson ==
    /\ LlmFrame
    /\ llm.pc = "parse"
    /\ LET text == StripFence(Strip(llm.text)) IN
       llm' = [llm EXCEPT
                 !.parsed = text,
                 !.result = IF JsonLoads(text)
                            THEN [kind |-> "json", error |-> ""]
                            ELSE [kind |-> "error",
                                  error |-> "JSONDecodeError"],
                 !.pc = "done"]

\* a provider about to be called
ChatIdle == \E head \in MessageHeads : llm = NewLlm("idle", head)

\* no text-generation call
LlmParked == llm = NewLlm("parked", "no_system")

NextChat ==
    \/ chat
    \/ chat_json
    \/ CreateReturns
    \/ \E e \in CreateErrors : CreateRaises(e)
    \/ SleepReturns
    \/ ParseJson

-----------------------------------------------------------------------------
(* BilibiliAdapter._parse_duration *)

\* most ":"-separated parts of an input explored
MaxParts == 4

\* the parts int() accepts, and its value for each
Numerals == {"12", "34", "1", "02", "03", "-1"}

IntOf(part) ==
    CASE part = "12" -> 12
      [] part = "34" -> 34
      [] part = "1"  -> 1
      [] part = "02" -> 2
      [] part = "03" -> 3
      [] part = "-1" -> 0 - 1

\* parts int() raises ValueError for
NonNumerals == {"garbage", ""}

\* an input that is not a string: the float a JSON Infinity decodes to
FloatInf == "float(inf)"

\* str(duration_str).split(":") of the inputs explored
DurationInputs ==
    UNION {[1..n -> Numerals \cup NonNumerals] : n \in 1..MaxParts}
        \cup {<<FloatInf>>}

\* the body of the try block: a value, or the ValueError of int()
TryParse(parts) ==
    IF Len(parts) = 2
    THEN IF \A k \in 1..2 : parts[k] \in Numerals
         THEN [raised |-> "none",
               value |-> IntOf(parts[1]) * 60 + IntOf(parts[2])]
         ELSE [raised |-> "ValueError", value |-> 0]
    ELSE IF Len(parts) = 3
    THEN IF \A k \in 1..3 : parts[k] \in Numerals
         THEN [raised |-> "none",
               value |-> IntOf(parts[1]) * 3600 + IntOf(parts[2]) * 60
                           + IntOf(parts[3])]
         ELSE [raised |-> "ValueError", value |-> 0]
    \* int(duration_str): the whole input, ":" included
    ELSE IF Len(parts) = 1 /\ parts[1] \in Numerals
    THEN [raised |-> "none", value |-> IntOf(parts[1])]
    ELSE IF parts = <<FloatInf>>
    THEN [raised |-> "OverflowError", value |-> 0]
    ELSE [raised |-> "ValueError", value |-> 0]

\* except (ValueError, TypeError): return 0
parse_duration(parts) ==
    LET r == TryParse(parts) IN
    IF r.raised \in {"ValueError", "TypeError"}
    THEN [raised |-> "none", value |-> 0]
    ELSE r

NewDuration(pc, parts) ==
    [pc |-> pc, input |-> parts, result |-> [raised |-> "none", value |-> 0]]

ParseDuration ==
    /\ HelperFrame
    /\ dur.pc = "called"
    /\ dur' = [dur EXCEPT !.pc = "returned",
                          !.result = parse_duration(dur.input)]

DurationCalled == \E parts \in DurationInputs : dur = NewDuration("called", parts)

HelperParked == dur = NewDuration("parked", <<"garbage">>)

NextDuration == ParseDuration

-----------------------------------------------------------------------------
(* PlatformRegistry.get, BilibiliAdapter.get_subtitles, _get_cid,
   _whisper_fallback, get_audio_url: the retrievals for one video *)

\* adapter objects PlatformRegistry.get creates
MaxInstances == 2

\* get_subtitles calls for the video
MaxCalls == 3

\* what _get_view_info gives: None, data without a cid, data whose subtitle
\* list has URLs, has entries without URLs, or is empty
ViewOutcomes == {"unavailable", "no_cid", "urls", "no_urls", "no_tracks"}

NewTranscript(pc) ==
    [pc       |-> pc,
     inst     |-> 1,
     cached   |-> {},
     calls    |-> 0,
     log      |-> <<>>,
     view     |-> "none",
     player   |-> "none",
     stt      |-> "none",
     result   |-> "none",
     resolved |-> FALSE,
     repeated |-> FALSE]

\* PlatformRegistry.get: cls._adapters[name]() is a new object, whose
\* _cid_cache is empty
RegistryGet ==
    /\ TranscriptFrame
    /\ gs.pc \in {"idle", "done"}
    /\ gs.inst < MaxInstances
    /\ gs' = [gs EXCEPT !.inst = @ + 1]

\* get_subtitles up to the answer of the view API (the cookie warm-up of
\* _ensure_initialized catches its own errors)
GetSubtitlesView ==
    /\ TranscriptFrame
    /\ gs.pc \in {"idle", "done"}
    /\ gs.calls < MaxCalls
    /\ \E out \in ViewOutcomes :
         LET called == [gs EXCEPT !.calls = @ + 1, !.log = <<"view">>,
                                  !.view = out, !.player = "none",
                                  !.stt = "none", !.result = "none"]
             stored == [called EXCEPT !.cached = @ \cup {gs.inst},
                                      !.resolved = TRUE]
         IN gs' = CASE out = "unavailable" ->
                         [called EXCEPT !.pc = "legacy_cid"]
                    [] out = "no_cid" ->
                         [called EXCEPT !.pc = "done", !.result = "absent"]
                    [] out = "urls" -> [stored EXCEPT !.pc = "fetch"]
                    [] OTHER -> [stored EXCEPT !.pc = "player"]

\* _get_subtitles_legacy: _get_cid gives the cached cid or sends the
\* pagelist request; an error of that request leaves get_subtitles
LegacyCid ==
    /\ TranscriptFrame
    /\ gs.pc = "legacy_cid"
    /\ IF gs.inst \in gs.cached
       THEN gs' = [gs EXCEPT !.pc = "player"]
       ELSE \E out \in {"found", "none", "raise"} :
              LET asked == [gs EXCEPT !.log = Append(@, "pagelist"),
                                      !.repeated = @ \/ gs.resolved]
              IN gs' = CASE out = "found" ->
                              [asked EXCEPT !.pc = "player",
                                            !.cached = @ \cup {gs.inst},
                                            !.resolved = TRUE]
                         [] out = "none" -> [asked EXCEPT !.pc = "whisper"]
                         [] OTHER -> [asked EXCEPT !.pc = "done",
                                                   !.result = "raised"]

\* _get_subtitle_list_from_player returns its list (it never raises)
PlayerList ==
    /\ TranscriptFrame
    /\ gs.pc = "player"
    /\ \E out \in {"tracks", "empty"} :
         gs' = [gs EXCEPT !.log = Append(@, "player"),
                          !.player = out,
                          !.pc = IF out = "tracks" THEN "fetch"
                                                   ELSE "whisper"]

\* _fetch_subtitle_content: no URL in the chosen track, the CDN request
\* raises, the body is empty, or the caption lines are joined
FetchContent ==
    /\ TranscriptFrame
    /\ gs.pc = "fetch"
    /\ \E out \in {"no_url", "raise", "empty_body", "text"} :
         gs' = [gs EXCEPT
                  !.log = IF out = "no_url" THEN @ ELSE Append(@, "cdn"),
                  !.pc = "done",
                  !.result = CASE out = "raise" -> "raised"
                               [] out = "text"  -> "text"
                               [] OTHER         -> "absent"]

\* _whisper_fallback: get_audio_url starts with _get_cid; the except clause
\* of the fallback turns an error into None
WhisperCid ==
    /\ TranscriptFrame
    /\ gs.pc = "whisper"
    /\ LET entered == [gs EXCEPT !.log = Append(@, "whisper")] IN
       IF gs.inst \in gs.cached
       THEN gs' = [entered EXCEPT !.pc = "playurl"]
       ELSE \E out \in {"found", "none", "raise"} :
              LET asked == [entered EXCEPT
                              !.log = Append(@, "pagelist"),
                              !.repeated = @ \/ gs.resolved]
              IN gs' = IF out = "found"
                       THEN [asked EXCEPT !.pc = "playurl",
                                          !.cached = @ \cup {gs.inst},
                                          !.resolved = TRUE]
                       ELSE [asked EXCEPT !.pc = "done", !.stt = "failed",
                                          !.result = "absent"]

\* the rest of get_audio_url: the play-URL request
PlayUrl ==
    /\ TranscriptFrame
    /\ gs.pc = "playurl"
    /\ \E out \in {"url", "none", "raise"} :
         LET asked == [gs EXCEPT !.log = Append(@, "playurl")] IN
         gs' = IF out = "url"
               THEN [asked EXCEPT !.pc = "transcribe"]
               ELSE [asked EXCEPT !.pc = "done", !.stt = "failed",
                                  !.result = "absent"]

\* the fallback without its except clause
Transcribe_uncaught ==
    /\ TranscriptFrame
    /\ gs.pc = "transcribe"
    /\ \E out \in {"text", "none", "raise"} :
         gs' = [gs EXCEPT
                  !.log = Append(@, "transcribe"),
                  !.pc = "done",
                  !.stt = IF out = "text" THEN "text" ELSE "failed",
                  !.result = CASE out = "text"  -> "text"
                               [] out = "raise" -> "raised"
                               [] OTHER         -> "absent"]

\* transcribe_from_url returns text or None, or raises into the except
\* clause of _whisper_fallback
Transcribe ==
    /\ TranscriptFrame
    /\ gs.pc = "transcribe"
    /\ \E out \in {"text", "none", "raise"} :
         gs' = [gs EXCEPT
                  !.log = Append(@, "transcribe"),
                  !.pc = "done",
                  !.stt = IF out = "text" THEN "text" ELSE "failed",
                  !.result = IF out = "text" THEN "text" ELSE "absent"]

\* the first adapter object, before any retrieval
AdapterCreated == gs = NewTranscript("idle")

GsParked == gs = NewTranscript("parked")

-----------------------------------------------------------------------------
(* _ensure_buvid, BilibiliAdapter._ensure_initialized and _signed_get, called
   by the coroutines of concurrent runs *)

\* adapter calls one coroutine makes
MaxOps == 2

NewBoot(pc) ==
    [pc          |-> [p \in Callers |-> pc],
     ops         |-> [p \in Callers |-> 0],
     initialized |-> FALSE,
     spi         |-> "none",
     spi_sent    |-> 0,
     early       |-> FALSE,
     aborted     |-> FALSE]

\* _ensure_buvid with the flag set: return at once
EnsureBuvidSkip(p) ==
    /\ BootFrame
    /\ boot.pc[p] = "idle" /\ boot.ops[p] < MaxOps
    /\ boot.initialized
    /\ boot' = [boot EXCEPT !.pc[p] = "ready"]

\* _ensure_buvid with the flag clear: set it, then await the SPI request
EnsureBuvidStart(p) ==
    /\ BootFrame
    /\ boot.pc[p] = "idle" /\ boot.ops[p] < MaxOps
    /\ ~boot.initialized
    /\ boot' = [boot EXCEPT !.pc[p] = "spi", !.initialized = TRUE,
                            !.spi = "sent", !.spi_sent = @ + 1]

\* the SPI request is answered or raises: cookies are set, or a warning is
\* logged; _ensure_buvid returns in each case
SpiReturns(p) ==
    /\ BootFrame
    /\ boot.pc[p] = "spi"
    /\ \E out \in {"cookies", "error_code", "raise"} :
         boot' = [boot EXCEPT !.spi = out, !.pc[p] = "ready"]

\* the caller goes on to _signed_get: the signed request is sent
SignedGet(p) ==
    /\ BootFrame
    /\ boot.pc[p] = "ready"
    /\ boot' = [boot EXCEPT !.pc[p] = "idle", !.ops[p] = @ + 1,
                            !.early = @ \/ boot.spi = "sent"]

\* a fresh process: the flag is clear, no coroutine has called the adapter
ProcessStarted == boot = NewBoot("idle")

BootParked == boot = NewBoot("parked")

TranscriptParked == GsParked /\ BootParked

NextBoot ==
    \/ \E p \in Callers : EnsureBuvidSkip(p)
    \/ \E p \in Callers : EnsureBuvidStart(p)
    \/ \E p \in Callers : SpiReturns(p)
    \/ \E p \in Callers : SignedGet(p)

NextTranscript ==
    \/ RegistryGet
    \/ GetSubtitlesView
    \/ LegacyCid
    \/ PlayerList
    \/ FetchContent
    \/ WhisperCid
    \/ PlayUrl
    \/ Transcribe

-----------------------------------------------------------------------------
(* The pipeline specification *)

Markers == {"fresh"} \cup Range(Steps) \cup {"nosuchstep"}

MarkerIndex(m) ==
    IF m \in Range(Steps) THEN CHOOSE k \in 1..TotalSteps : Steps[k] = m
    ELSE 0

\* the context a run starts from: empty, or as persisted after step m of an
\* earlier run that had found n videos
PersistedContext(m, n, target, platform) ==
    LET k == MarkerIndex(m)
        vids == IF k >= 1 THEN SearchResult(n) ELSE <<>>
        res == IF k >= 2
               THEN [j \in 1..n |->
                       [id |-> j, transcript |-> "t",
                        summary |-> IF k >= 3 THEN "s" ELSE "",
                        extraction_method |-> "subtitle"]]
               ELSE <<>>
    IN [platform |-> platform,
        max_videos |-> target,
        videos |-> vids,
        video_results |-> res,
        consolidated_summary |-> IF k >= 4 THEN "c" ELSE "",
        report_markdown |-> IF k >= 5 THEN "m" ELSE "",
        report_json |-> IF k >= 5
                        THEN [video_count |-> n, videos |-> res]
                        ELSE [video_count |-> 0, videos |-> <<>>],
        progress |-> 0,
        cancel_event |-> FALSE,
        resume_after_step |-> m]

\* items that carry a summary when a run is restarted after "extract"
MaxSummarized == 1

\* the context of a run that failed inside SummarizeStep after the calls of
\* its first items had returned: their VideoResult objects hold a summary
WithEarlierSummaries(ctx, had) ==
    [ctx EXCEPT !.video_results =
        [j \in 1..Len(ctx.video_results) |->
            IF j <= had THEN [ctx.video_results[j] EXCEPT !.summary = "s0"]
                        ELSE ctx.video_results[j]]]

InitPipeline ==
    /\ \E m \in Markers, n \in 1..MaxPool, target \in 1..MaxTarget,
          platform \in Platforms, had \in 0..MaxSummarized :
         /\ had > 0 => (m = "extract" /\ had <= n)
         /\ pctx = WithEarlierSummaries(
                       PersistedContext(m, n, target, platform), had)
    /\ orch_pc = "top"
    /\ step_i = 1
    /\ skipping = (pctx.resume_after_step # "fresh")
    /\ error = NoError
    /\ ex = ExIdle
    /\ sm = SmIdle
    /\ exec_log = <<>>
    /\ cb_log = <<>>
    /\ attempted = <<>>
    /\ cancel_at = 0
    /\ AgentParked
    /\ AdapterParked
    /\ ServiceParked
    /\ LlmParked /\ HelperParked /\ TranscriptParked

PipeParked ==
    /\ pctx = PersistedContext("fresh", 1, 1, "bilibili")
    /\ orch_pc = "parked"
    /\ step_i = 1
    /\ skipping = FALSE
    /\ error = NoError
    /\ ex = ExIdle
    /\ sm = SmIdle
    /\ exec_log = <<>>
    /\ cb_log = <<>>
    /\ attempted = <<>>
    /\ cancel_at = 0

NextPipeline ==
    \/ OrchSkip
    \/ OrchCancelled
    \/ OrchStart
    \/ OrchReturn
    \/ PipeCancel
    \/ SearchExecute
    \/ ExtractNoAdapter
    \/ ExtractCancelled
    \/ ExtractEarlyStop
    \/ ExtractExhausted
    \/ ExtractAttempt
    \/ \E k \in 1..MaxPool : SumAcquire(k)
    \/ \E k \in 1..MaxPool : SumComplete(k)
    \/ SumGatherDone
    \/ SumGatherRaise
    \/ ConsolidateExecute
    \/ ReportExecute

SpecPipeline == InitPipeline /\ [][NextPipeline]_vars

InitAgent ==
    AgentQueued /\ PipeParked /\ AdapterParked /\ ServiceParked /\ LlmParked /\ HelperParked /\ TranscriptParked

SpecAgent == InitAgent /\ [][NextAgent]_vars

\* the event loop keeps scheduling the background run: every await of the
\* run returns or raises
SpecAgentFair == SpecAgent /\ WF_vars(NextRun)

InitSubtitle ==
    /\ SubtitleCalled /\ WbiParked /\ PipeParked /\ AgentParked
    /\ ServiceParked /\ LlmParked /\ HelperParked /\ TranscriptParked

SpecSubtitle == InitSubtitle /\ [][NextSubtitle]_vars

InitWbi ==
    /\ WbiLoaded /\ SubParked /\ PipeParked /\ AgentParked
    /\ ServiceParked /\ LlmParked /\ HelperParked /\ TranscriptParked

SpecWbi == InitWbi /\ [][NextWbi]_vars

\* either driver: a pipeline run or a control-loop run
InitDrivers == InitPipeline \/ InitAgent

NextDrivers == NextPipeline \/ NextAgent

SpecDrivers == InitDrivers /\ [][NextDrivers]_vars

InitLife ==
    /\ TaskCreated /\ ToolsParked /\ PipeParked /\ AgentParked
    /\ AdapterParked /\ LlmParked /\ HelperParked /\ TranscriptParked

SpecLife == InitLife /\ [][NextLife]_vars

InitTools ==
    /\ TwoRunsStarted /\ LifeParked /\ PipeParked /\ AgentParked
    /\ AdapterParked /\ LlmParked /\ HelperParked /\ TranscriptParked

SpecTools == InitTools /\ [][NextTools]_vars

InitChat ==
    /\ ChatIdle /\ PipeParked /\ AgentParked /\ AdapterParked
    /\ ServiceParked /\ HelperParked /\ TranscriptParked

SpecChat == InitChat /\ [][NextChat]_vars

InitDuration ==
    /\ DurationCalled /\ PipeParked /\ AgentParked /\ AdapterParked
    /\ ServiceParked /\ LlmParked /\ TranscriptParked

SpecDuration == InitDuration /\ [][NextDuration]_vars

InitTranscript ==
    /\ AdapterCreated /\ PipeParked /\ AgentParked /\ AdapterParked
    /\ ServiceParked /\ LlmParked /\ HelperParked /\ BootParked

SpecTranscript == InitTranscript /\ [][NextTranscript]_vars

InitBoot ==
    /\ ProcessStarted /\ PipeParked /\ AgentParked /\ AdapterParked
    /\ ServiceParked /\ LlmParked /\ HelperParked /\ GsParked

SpecBoot == InitBoot /\ [][NextBoot]_vars

-----------------------------------------------------------------------------
(* Properties of the Stage Pipeline *)

ExecNames == [k \in 1..Len(exec_log) |-> exec_log[k].step]

AttemptedIds == [k \in 1..Len(attempted) |-> attempted[k].id]

SuccessesBefore(k) ==
    CountSeq(SubSeq(attempted, 1, k - 1), LAMBDA a : a.ok)

\* C1: Extract requests transcripts in discovery order, and every request is
\* made while fewer than target_count earlier requests have succeeded, so no
\* item is requested once target_count transcripts are collected.
C1_ExtractOrderEarlyStop ==
    /\ IsPrefix(AttemptedIds, pctx.videos)
    /\ \A k \in 1..Len(attempted) : SuccessesBefore(k) < pctx.max_videos

\* Extract has ended by early stop with candidates left unrequested
C1_Witness ==
    /\ "summarize" \in Range(ExecNames)
    /\ SuccessesBefore(Len(attempted) + 1) = pctx.max_videos
    /\ Len(attempted) + 2 <= ex.pool_size

StagesAfter(m) == SubSeq(Steps, MarkerIndex(m) + 1, TotalSteps)

\* C6: with a resume marker naming stage k, the stages executed are always
\* an initial part of the stages after k, in order, and are all of them when
\* the run returns.
C6_ResumeSkipsCompleted ==
    pctx.resume_after_step \in Range(Steps) =>
        /\ IsPrefix(ExecNames, StagesAfter(pctx.resume_after_step))
        /\ orch_pc = "returned" =>
               ExecNames = StagesAfter(pctx.resume_after_step)

\* a run resumed after "extract" has returned
C6_Witness ==
    /\ pctx.resume_after_step = "extract"
    /\ orch_pc = "returned"
    /\ ExecNames = <<"summarize", "consolidate", "report">>

\* C7: no stage is entered with the cancellation flag set at its boundary
\* check; when the check raises, the run has unwound with
\* PipelineCancelledError and neither that stage nor a later one was executed.
C7_CancelAtBoundary ==
    /\ \A k \in 1..Len(exec_log) : ~exec_log[k].flag
    /\ cancel_at # 0 =>
          /\ orch_pc = "raised"
          /\ error.type = "PipelineCancelledError"
          /\ error.type \notin {"RuntimeError", "ValueError", "LLMError",
                                "AdapterError"}
          /\ \A k \in 1..Len(exec_log) :
                 MarkerIndex(exec_log[k].step) < cancel_at

\* search and extract ran, then the check before summarize raised
C7_Witness ==
    /\ cancel_at = 3
    /\ ExecNames = <<"search", "extract">>

\* C8: a finished summarize task whose call raised leaves its item without a
\* summary, one whose call returned text leaves its item with one, and the
\* stage raises its own error only when every task has finished and no item
\* has a summary.
C8_SummarizeFailureIsolation ==
    /\ \A k \in 1..sm.total :
          /\ sm.outcome[k] = "raise" =>
                sm.task[k] = "done" /\ pctx.video_results[k].summary = ""
          /\ sm.outcome[k] = "ok" =>
                sm.task[k] = "done" /\ pctx.video_results[k].summary # ""
    /\ (error.step = "summarize" /\ error.type # "PipelineCancelledError") =>
          /\ \A k \in 1..sm.total : sm.task[k] = "done"
          /\ \A k \in 1..sm.total : pctx.video_results[k].summary = ""

\* three or more items, the call for item 2 raised, the others got summaries
\* and the pipeline went on to consolidate
C8_Witness ==
    /\ sm.total >= 3
    /\ sm.outcome[2] = "raise"
    /\ \A k \in 1..sm.total : k # 2 => pctx.video_results[k].summary # ""
    /\ pctx.video_results[2].summary = ""
    /\ "consolidate" \in Range(ExecNames)

\* the stage has been executed and is not running any more
StageOver(name) == name \in Range(ExecNames) /\ ~InStage(name)

\* the stage has left nothing of what it was to produce
ZeroSuccesses(name) ==
    CASE name = "search"    -> pctx.videos = <<>>
      [] name = "extract"   -> pctx.video_results = <<>>
      [] name = "summarize" ->
             \A k \in 1..Len(pctx.video_results) :
                 pctx.video_results[k].summary = ""

\* C23: when Search, Extract or Summarize is over with zero successes, the
\* run has unwound with that stage's error, no later stage was executed and
\* the persistence hook was not invoked for the failed stage.
C23_ZeroSuccessAborts ==
    \A name \in {"search", "extract", "summarize"} :
        (StageOver(name) /\ ZeroSuccesses(name)) =>
            /\ orch_pc = "raised"
            /\ error.type # "none" /\ error.step = name
            /\ ExecNames[Len(ExecNames)] = name
            /\ HookEvent(name) \notin Range(cb_log)

\* Extract asked for two or more transcripts, got none and raised
C23_Witness ==
    /\ error = [type |-> "RuntimeError", step |-> "extract"]
    /\ orch_pc = "raised"
    /\ Len(attempted) >= 2
    /\ pctx.video_results = <<>>
    /\ ExecNames = <<"search", "extract">>

\* C24: in Extract an exception of one item's transcript retrieval is
\* recorded as a failed item and does not leave the stage; the failed item is
\* not counted toward the target, and the loop ends only by cancellation, by
\* reaching the target or by running out of candidates.
C24_ExtractFailureIsolation ==
    /\ \A k \in 1..Len(ex.results) :
           ex.results[k].extraction_method = "error" =>
               /\ ex.results[k].transcript = ""
               /\ ex.results[k].id = pctx.videos[k] \/ StageOver("extract")
    /\ ex.success_count
         = CountSeq(ex.results, LAMBDA r : r.transcript # "")
    /\ error.step = "extract" =>
           error.type \in {"RuntimeError", "PipelineCancelledError",
                           "ValueError"}
    /\ (/\ StageOver("extract")
        /\ error.step = "extract" => error.type = "RuntimeError") =>
           \/ Len(ex.results) = ex.pool_size
           \/ ex.success_count >= pctx.max_videos

\* the first item's retrieval raised, the second gave a transcript, and the
\* run went on to Summarize
C24_Witness ==
    /\ Len(ex.results) >= 2
    /\ ex.results[1].extraction_method = "error"
    /\ ex.results[2].transcript # ""
    /\ ex.success_count = 1
    /\ "summarize" \in Range(ExecNames)

\* the stage was executed and execute returned
StageCompleted(name) == StageOver(name) /\ error.step # name

HookCalls(name) == CountSeq(cb_log, LAMBDA e : e = HookEvent(name))

\* C26: the persistence hook is invoked exactly once for every stage executed
\* to completion and never for another stage; each invocation comes after
\* the stage's own progress reports and is directly followed by the advance
\* of progress to (i+1)/total x 100.
C26_HookOncePerCompletedStage ==
    /\ \A i \in 1..TotalSteps :
           HookCalls(Steps[i])
               = IF StageCompleted(Steps[i]) THEN 1 ELSE 0
    /\ \A k \in 1..Len(cb_log) :
           cb_log[k].cb = "hook" =>
               LET i == MarkerIndex(cb_log[k].step) IN
               /\ k < Len(cb_log)
               /\ cb_log[k + 1]
                    = ProgressEvent((i * 100 * ProgressScale) \div TotalSteps)
               /\ \A j \in 1..(k - 1) :
                      cb_log[j].cb = "hook" =>
                          MarkerIndex(cb_log[j].step) < i

\* a run resumed after "search" has returned: four hooks, none for search
C26_Witness ==
    /\ pctx.resume_after_step = "search"
    /\ orch_pc = "returned"
    /\ HookCalls("search") = 0
    /\ \A i \in 2..TotalSteps : HookCalls(Steps[i]) = 1

-----------------------------------------------------------------------------
(* Properties of the Control Loop *)

\* the candidates the backfill loop has gone through so far
BackfillTried == {bf.candidates[i] : i \in 1..(bf.idx - 1)}

\* C2: when backfill ran because fewer than max_videos items were summarized
\* and has returned, the run holds exactly max_videos distinct summarized
\* items, or else every candidate has been tried.
C2_BackfillClosure ==
    (a_pc = "force" /\ bf.idx >= 1) =>
        \/ Cardinality(Summarized(actx)) = actx.max_videos
        \/ Range(bf.candidates) \subseteq BackfillTried

\* C3: a run that has ended has a report.
C3_NeverEndsWithoutReport ==
    a_pc = "ended" => actx.report_markdown # ""

\* C4: once the policy loop is over the run goes through backfill and then
\* the force-report check, and it does not end as a failure.
C4_LoopEndThenBackfillThenForce ==
    a_pc = "ended" =>
        /\ hist.backfill_calls = 1
        /\ hist.force_checks = 1
        /\ task.status # "failed"

\* C5: after the cancellation flag is set during the run, the run performs
\* no further action and the task ends with status cancelled.
C5_CancelStopsRun ==
    actx.cancel_event =>
        /\ ~hist.acted_after_cancel
        /\ (a_pc = "ended" => task.status = "cancelled")

\* C11: a run that has ended with no summarized item holds the explanatory
\* "no usable content" report, never an empty one.
C11_ZeroSummariesExplained ==
    (a_pc = "ended" /\ Summarized(actx) = {}) =>
        actx.report_markdown = "no_content"

C13_TerminalStatusStable ==
    [][(NextRun /\ task.status \in {"done", "failed", "cancelled"})
          => task'.status = task.status]_vars

\* C14: at every moment at most one run of the task is executing.
C14_OneRunPerTask ==
    Cardinality({r \in Runs : life.pc[r] \in {"starting", "running"}}) <= 1

\* C15: the context of each run holds only items found for that run's own
\* query: in its discovery list, its transcripts, its summaries and its
\* report.
C15_ContextIsolation ==
    \A r \in TaskRuns :
        (tools.ctx[r].search_results \cup tools.ctx[r].transcripts
           \cup tools.ctx[r].summaries \cup tools.ctx[r].report)
          \subseteq ItemsOf(r)

\* C16: in both drivers an item with a non-empty summary has a non-empty
\* transcript.
C16_SummaryImpliesTranscript ==
    /\ \A v \in VideoIds :
          actx.video_data[v].summary # "" =>
              actx.video_data[v].transcript # ""
    /\ \A k \in 1..Len(pctx.video_results) :
          pctx.video_results[k].summary # "" =>
              pctx.video_results[k].transcript # ""

\* backfill has extracted and summarized an item the policy had left alone
C16_Witness ==
    /\ a_pc = "force"
    /\ bf.filled > 0
    /\ \E v \in Range(bf.candidates) :
          actx.video_data[v].summary # "" /\ actx.video_data[v].transcript # ""

\* C17: when a run has ended, its report is non-empty exactly if some item
\* has a summary. The explanatory report written for a run without summaries
\* is counted as the empty one, as C11 requires it there.
C17_ReportIffSummary ==
    a_pc = "ended" =>
        (actx.report_markdown \notin {"", "no_content"}
            <=> Summarized(actx) # {})

\* C18: discovered items are deduplicated by id: the ordered discovery list
\* holds at most one entry per id, and the mapping holds an item for exactly
\* the ids that were discovered.
C18_DiscoveredDeduplicated ==
    /\ \A i, j \in 1..Len(actx.search_results) :
           actx.search_results[i] = actx.search_results[j] => i = j
    /\ {v \in VideoIds : actx.video_data[v].info}
           = {actx.search_results[i] : i \in 1..Len(actx.search_results)}

\* the steps of executor.ainvoke at which the policy model has been sent a
\* generation request
PolicyRequest ==
    \/ PolicySearch
    \/ \E v \in VideoIds : PolicyExtract(v)
    \/ \E v \in VideoIds : PolicySummarize(v)
    \/ PolicyReport
    \/ PolicyBadOutput
    \/ LoopFinish
    \/ LoopPolicyError

\* C21: a run whose platform is not registered makes no network request: the
\* control loop sends nothing to the policy model, and a pipeline run started
\* from scratch neither searches nor fetches a transcript.
C21_UnknownPlatformFailsFirst ==
    [][/\ (a_pc = "loop" /\ ~RegistryKnows(actx.platform)) => ~PolicyRequest
       /\ (/\ orch_pc # "parked"
           /\ pctx.resume_after_step = "fresh"
           /\ ~RegistryKnows(pctx.platform))
              => (pctx'.videos = <<>> /\ attempted' = <<>>)]_vars

\* C25: a failure while extracting or summarizing one backfill candidate
\* stays with that candidate: a run that entered the backfill loop ends only
\* after the loop went through its candidates (or filled the gap) and after
\* the report check.
C25_BackfillFailureConfined ==
    (a_pc = "ended" /\ bf.idx >= 1) =>
        /\ BackfillLoopOver
        /\ hist.force_checks = 1

\* the candidates backfill has given a summary
AddedByBackfill == {v \in BackfillTried : actx.video_data[v].summary # ""}

\* C27: when backfill is left with a report that existed before it, the
\* report has been regenerated and lists every summarized item if backfill
\* added a summary, and is the same report if it added none.
C27_BackfillRegeneratesReport ==
    [][(/\ a_pc = "bf_loop" /\ BackfillLoopOver
        /\ a_pc' # "bf_loop"
        /\ actx.report_markdown # "")
           => IF AddedByBackfill # {}
              THEN /\ actx'.report_markdown # ""
                   /\ actx'.report_json.videos = Summarized(actx')
              ELSE /\ actx'.report_markdown = actx.report_markdown
                   /\ actx'.report_json = actx.report_json]_vars

-----------------------------------------------------------------------------
(* Properties of the Bilibili adapter *)

\* C9: the verified subtitle-track fetch makes at most MAX_SUBTITLE_RETRIES
\* attempts and never raises; it returns the empty list only after the last
\* attempt; with aid known, a non-empty result is the tracks of the last
\* response that are not mismatched, a last response with a matching track
\* succeeds on whatever attempt it comes, and MAX_SUBTITLE_RETRIES
\* mismatching responses give the empty list.
C9_VerifiedFetchBounded ==
    /\ sub.attempt \in 1..MAX_SUBTITLE_RETRIES
    /\ sub.pc # "raised"
    /\ sub.pc = "returned" =>
         /\ sub.result = <<>> => sub.attempt = MAX_SUBTITLE_RETRIES
         /\ (sub.aid /\ sub.result # <<>>) =>
              /\ sub.last.kind = "tracks"
              /\ \A i \in 1..Len(sub.result) :
                   sub.result[i] \in {"plain", "plain_aid", "ai_match"}
              /\ \A i \in 1..Len(sub.last.subs) :
                   sub.last.subs[i] \in {"plain", "plain_aid", "ai_match"} =>
                       sub.last.subs[i] \in Range(sub.result)
         /\ (sub.aid /\ sub.last.kind = "tracks"
               /\ "ai_match" \in Range(sub.last.subs)) => sub.result # <<>>
         /\ (sub.aid /\ sub.mismatches = MAX_SUBTITLE_RETRIES) =>
              sub.result = <<>>

\* seven attempts returned only mismatched tracks and the eighth returned a
\* matching one, which is the result
C9_Witness ==
    /\ sub.pc = "returned"
    /\ sub.aid
    /\ sub.attempt = MAX_SUBTITLE_RETRIES
    /\ sub.mismatches = MAX_SUBTITLE_RETRIES - 1
    /\ sub.result = <<"ai_match">>

\* C29: with the expected aid known, every track the verified fetch returns
\* has a URL that embeds the aid.
C29_ReturnedTracksEmbedAid ==
    (sub.pc = "returned" /\ sub.aid) =>
        \A i \in 1..Len(sub.result) : EmbedsAid(sub.result[i])

\* C10: the fetches that filled the cache lie at least one TTL apart: no two
\* of them were started within the same TTL window.
C10_OneFetchPerWindow ==
    \A f, g \in wbi.fetched :
        f # g => (f[2] - g[2] >= WBI_KEY_TTL \/ g[2] - f[2] >= WBI_KEY_TTL)

-----------------------------------------------------------------------------
(* Properties of the text-generation provider *)

Creates(log) == SelectSeq(log, LAMBDA ev : ev.kind = "create")

\* C19: chat makes at most 3 attempts; a successful attempt is the last
\* thing it does; it waits RETRY_BASE_DELAY * 2^(attempt-1) after a failed
\* attempt that is not the third, and only there; when the third attempt
\* fails the caller gets that attempt's error.
C19_ChatRetriesWithBackoff ==
    llm.call = "chat" =>
        LET log == llm.log
            n   == Len(llm.log)
        IN  /\ Len(Creates(log)) <= 3
            /\ \A i \in 1..n :
                 /\ log[i].kind = "create" =>
                      /\ log[i].attempt = Len(Creates(SubSeq(log, 1, i)))
                      /\ log[i].outcome = "ok" => i = n
                      /\ i > 1 => log[i-1].kind = "sleep"
                 /\ log[i].kind = "sleep" =>
                      /\ i > 1
                      /\ log[i-1].kind = "create"
                      /\ log[i-1].outcome # "ok"
                      /\ log[i-1].attempt < 3
                      /\ log[i].delay
                           = RETRY_BASE_DELAY * (2 ^ (log[i-1].attempt - 1))
            /\ llm.pc = "done" =>
                 /\ n > 0
                 /\ log[n].kind = "create"
                 /\ log[n].outcome = "ok" => llm.result.kind = "text"
                 /\ log[n].outcome # "ok" =>
                      /\ log[n].attempt = 3
                      /\ llm.result = [kind |-> "error",
                                       error |-> log[n].outcome]

\* three failed attempts, the last with another error than the first
C19_Witness ==
    /\ llm.call = "chat"
    /\ llm.pc = "done"
    /\ Len(llm.log) = 5
    /\ llm.log[5].outcome # llm.log[1].outcome
    /\ llm.result = [kind |-> "error", error |-> llm.log[5].outcome]

\* C20: chat_json makes one chat call; when the answer, without its fence
\* lines, does not parse as JSON the caller gets the parse error and the
\* model is not asked again.
C20_ChatJsonParsesOnce ==
    llm.call = "chat_json" =>
        /\ llm.chat_calls = 1
        /\ Len(Creates(llm.log)) <= 3
        /\ \A i \in 1..Len(llm.log) :
               llm.log[i].outcome = "ok" => i = Len(llm.log)
        /\ (llm.pc = "done" /\ llm.log[Len(llm.log)].outcome = "ok") =>
               IF JsonLoads(llm.parsed)
               THEN llm.result.kind = "json"
               ELSE llm.result = [kind |-> "error",
                                  error |-> "JSONDecodeError"]

\* a fenced answer whose inside does not parse
C20_Witness ==
    /\ llm.call = "chat_json"
    /\ llm.pc = "done"
    /\ llm.log[Len(llm.log)].outcome = "ok"
    /\ llm.text = <<"fence", "junk", "fence">>
    /\ llm.parsed = <<"junk">>
    /\ llm.result = [kind |-> "error", error |-> "JSONDecodeError"]
    /\ llm.chat_calls = 1

-----------------------------------------------------------------------------
(* Properties of the adapter's helpers *)

\* "MM:SS" or "H:MM:SS": two or three parts, each a numeral without sign
WellFormedDuration(parts) ==
    /\ Len(parts) \in {2, 3}
    /\ \A k \in 1..Len(parts) : parts[k] \in Numerals \ {"-1"}

\* C22: parse_duration never raises, maps "MM:SS" to MM*60+SS and "H:MM:SS"
\* to H*3600+MM*60+SS ("12:34" to 754, "1:02:03" to 3723), and maps every
\* other input to 0.
C22_ParseDuration ==
    dur.pc = "returned" =>
        LET parts == dur.input IN
        /\ dur.result.raised = "none"
        /\ (WellFormedDuration(parts) /\ Len(parts) = 2) =>
               dur.result.value = IntOf(parts[1]) * 60 + IntOf(parts[2])
        /\ (WellFormedDuration(parts) /\ Len(parts) = 3) =>
               dur.result.value = IntOf(parts[1]) * 3600
                                    + IntOf(parts[2]) * 60 + IntOf(parts[3])
        /\ parts = <<"12", "34">> => dur.result.value = 754
        /\ parts = <<"1", "02", "03">> => dur.result.value = 3723
        /\ ~WellFormedDuration(parts) => dur.result.value = 0

-----------------------------------------------------------------------------
(* Properties of transcript retrieval *)

\* position of the first request of that name in the call's log, 0 if none
FirstAt(name) ==
    IF name \in Range(gs.log)
    THEN CHOOSE i \in 1..Len(gs.log) :
             gs.log[i] = name /\ \A j \in 1..(i - 1) : gs.log[j] # name
    ELSE 0

\* C28: get_subtitles asks the view API first, the player API only when the
\* view API gave no track with a URL, and speech-to-text only when neither
\* gave a track; once speech-to-text has been tried and failed the call
\* returns "absent" and does not raise.
C28_SourcesInOrder ==
    /\ gs.log # <<>> => gs.log[1] = "view"
    /\ "player" \in Range(gs.log) =>
           /\ gs.view \in {"unavailable", "no_urls", "no_tracks"}
           /\ FirstAt("view") < FirstAt("player")
    /\ "whisper" \in Range(gs.log) =>
           /\ gs.view \in {"unavailable", "no_urls", "no_tracks"}
           /\ gs.player # "tracks"
           /\ "cdn" \notin Range(gs.log)
           /\ FirstAt("view") < FirstAt("whisper")
           /\ "player" \in Range(gs.log) =>
                  FirstAt("player") < FirstAt("whisper")
    /\ (gs.pc = "done" /\ "whisper" \in Range(gs.log)) =>
           /\ gs.result \in {"text", "absent"}
           /\ gs.stt = "failed" => gs.result = "absent"
           /\ gs.stt = "text" => gs.result = "text"

\* no track from the view API, none from the player API, the transcription
\* was started and failed: absent
C28_Witness ==
    /\ gs.pc = "done"
    /\ gs.log = <<"view", "player", "whisper", "playurl", "transcribe">>
    /\ gs.view = "no_tracks"
    /\ gs.stt = "failed"
    /\ gs.result = "absent"

\* C30: once the cid of the video has been resolved, no later retrieval
\* sends another cid-resolving (pagelist) request.
C30_CidResolvedOnce == ~gs.repeated

-----------------------------------------------------------------------------
(* Properties of the session bootstrap *)

\* C31: the SPI request is sent at most once, no signed request is sent
\* while it is still outstanding, and its failure does not abort the call
\* that made it.
C31_BootstrapOnceBeforeSigned ==
    /\ boot.spi_sent <= 1
    /\ ~boot.early
    /\ ~boot.aborted

-----------------------------------------------------------------------------
(* Properties of the persisted resume marker *)

\* the last stage whose work the run's context holds: a report, else a
\* summary, else a transcript, else search results, else none
LastCompletedStage ==
    IF actx.report_markdown # "" THEN "report"
    ELSE IF \E v \in VideoIds : actx.video_data[v].summary # ""
         THEN "summarize"
    ELSE IF \E v \in VideoIds : actx.video_data[v].transcript # ""
         THEN "extract"
    ELSE IF actx.search_results # <<>> THEN "search"
    ELSE ""

\* C32: once a run's results are persisted, after success, failure or
\* cancellation, the task's completed_step names the last stage that
\* completed in that run.
C32_MarkerNamesLastCompletedStage ==
    a_pc \in {"mark_done", "mark_failed"} =>
        task.completed_step = LastCompletedStage

-----------------------------------------------------------------------------
(* Properties of the pipeline's discovery list, summaries and progress *)

\* C33: no item of the discovery list context.videos is removed from the
\* context by any step of the run.
C33_DiscoveredItemsKept ==
    [][Range(pctx.videos) \subseteq Range(pctx'.videos)]_vars

\* C34: SummarizeStep makes no generation call for an item that already
\* has a summary when the stage starts, and leaves that summary unchanged.
C34_SummarizedItemsSkipped ==
    [][\A k \in 1..sm.total :
          (sm.task[k] = "wait" /\ pctx.video_results[k].summary # "")
              => /\ sm'.task[k] # "call"
                 /\ pctx'.video_results[k].summary
                        = pctx.video_results[k].summary]_vars

\* C35: at most 3 generation calls of SummarizeStep are in flight at any
\* instant, and the summary of every finished item is the result of the call
\* made for that item, whatever the order in which the calls end.
C35_AtMostThreeInFlight ==
    /\ Cardinality(InCall) <= 3
    /\ \A k \in 1..sm.total :
          sm.task[k] = "done" =>
              pctx.video_results[k].summary = SummaryAfterCall(sm.outcome[k])

\* three calls in flight while a later item's call has already ended with a
\* summary and an earlier item's call is still running
C35_Witness ==
    /\ Cardinality(InCall) = 3
    /\ \E j, k \in 1..sm.total :
          /\ j < k
          /\ sm.task[j] = "call"
          /\ sm.task[k] = "done"
          /\ sm.outcome[k] = "ok"
          /\ pctx.video_results[k].summary = "s"

\* the values handed to the pipeline's progress callback, in order
Reported ==
    [k \in 1..Len(SelectSeq(cb_log, LAMBDA e : e.cb = "progress")) |->
        SelectSeq(cb_log, LAMBDA e : e.cb = "progress")[k].value]

\* C36: in a run of the pipeline or of the control loop every reported
\* progress value lies in [0, 100] and no reported value is smaller than
\* the one reported before it.
C36_ProgressBoundedMonotone ==
    /\ [](/\ \A k \in 1..Len(Reported) :
                Reported[k] \in 0..(100 * ProgressScale)
          /\ \A k \in 1..(Len(Reported) - 1) : Reported[k] <= Reported[k + 1]
          /\ task.progress \in 0..(100 * ProgressScale))
    /\ [][task.progress <= task'.progress]_vars

\* the control loop reported 50 + 30 (a summary reached the target) and then
\* extracted another item, whose heuristic value is lower
C36_Witness ==
    /\ a_pc = "loop"
    /\ task.progress = 80 * ProgressScale
    /\ \E v \in VideoIds :
          /\ actx.video_data[v].transcript # ""
          /\ actx.video_data[v].summary = ""
    /\ \E v \in VideoIds : actx.video_data[v].summary # ""

-----------------------------------------------------------------------------
(* Properties of the structured report *)

\* C37: in the structured report of the pipeline and of the control loop
\* video_count equals the number of entries of videos, and every entry of
\* videos has a non-empty summary.
C37_ReportCountsItsItems ==
    /\ pctx.report_json.video_count = Len(pctx.report_json.videos)
    /\ \A k \in 1..Len(pctx.report_json.videos) :
          pctx.report_json.videos[k].summary # ""
    /\ actx.report_json.video_count = Cardinality(actx.report_json.videos)
    /\ \A v \in actx.report_json.videos : actx.video_data[v].summary # ""

-----------------------------------------------------------------------------
(* Properties of SummarizeStep under cancellation *)

\* C38: once run has unwound from SummarizeStep with the cancellation
\* error, no task of the stage writes a summary or calls the progress
\* callback.
C38_NoSummarizeWorkAfterCancel ==
    [][(/\ orch_pc = "raised"
        /\ error = [type |-> "PipelineCancelledError", step |-> "summarize"])
          => /\ pctx'.video_results = pctx.video_results
             /\ cb_log' = cb_log]_vars

-----------------------------------------------------------------------------
(* Properties of a run resumed after an unknown step *)

\* C39: with a resume marker that names no step of the pipeline, run
\* executes no step, reports no progress, calls no persistence hook, leaves
\* the context as it was given and does not raise.
C39_UnknownMarkerRunsNothing ==
    pctx.resume_after_step \notin Range(Steps) \cup {"fresh"} =>
        /\ exec_log = <<>>
        /\ cb_log = <<>>
        /\ orch_pc \in {"top", "returned"}
        /\ error = NoError
        /\ \E n \in 1..MaxPool, target \in 1..MaxTarget, platform \in Platforms :
              [pctx EXCEPT !.cancel_event = FALSE]
                  = PersistedContext(pctx.resume_after_step, n, target,
                                     platform)

\* a run with an unknown marker has returned, although cancel was called
\* while it was skipping
C39_Witness ==
    /\ pctx.resume_after_step = "nosuchstep"
    /\ orch_pc = "returned"
    /\ step_i = TotalSteps + 1
    /\ pctx.cancel_event

-----------------------------------------------------------------------------
(* Properties of repeated tool calls *)

\* C40: extract_subtitle on an item that has a transcript and
\* summarize_video on an item that has a summary make no adapter or
\* generation call (the tool returns, nothing raises) and leave every item's
\* transcript and summary, hence the numbers of extracted and summarized
\* items, unchanged.
C40_RepeatedToolIsNoOp ==
    [][\A v \in VideoIds :
          ((PolicyExtract(v) /\ actx.video_data[v].transcript # "")
             \/ (PolicySummarize(v) /\ actx.video_data[v].summary # ""))
          => /\ actx'.video_data = actx.video_data
             /\ a_pc' = "loop"
             /\ hist'.run_error = hist.run_error
             /\ Cardinality(Extracted(actx')) = Cardinality(Extracted(actx))
             /\ Cardinality(Summarized(actx')) = Cardinality(Summarized(actx))]_vars

\* a tool was called again on an item it had served, nothing was raised and
\* the loop goes on with both items extracted and one of them summarized
C40_Witness ==
    /\ hist.repeated
    /\ a_pc = "loop"
    /\ hist.run_error = "none"
    /\ Cardinality(Extracted(actx)) = 2
    /\ Cardinality(Summarized(actx)) = 1

=============================================================================
